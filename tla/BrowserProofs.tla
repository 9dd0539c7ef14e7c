----------------------------- MODULE BrowserProofs -----------------------------
(***************************************************************************)
(* What the two scripts of the browser are proved to do: the settings form *)
(* with its preview, and the login page.  Each is a module of its own;     *)
(* nothing here is about both.                                             *)
(***************************************************************************)
EXTENDS EnforcementPreview, LoginPage, TLAPS

-----------------------------------------------------------------------------
(***************************************************************************)
(* The preview.                                                            *)
(*                                                                         *)
(* For any policies, any number of overlapping scans and any number of     *)
(* evictions: the preview implements PreviewBoard, and the form stops      *)
(* polling only at a count that began after it asked.                      *)
(*                                                                         *)
(* The Lua scripts compare scan numbers, the promises are about the order  *)
(* in which scans began.  The invariant says why that is the same: within  *)
(* an epoch the numbers count the scans begun since its birth, and a scan  *)
(* of another epoch began before the hash was last lost.                   *)
(***************************************************************************)
Numbered(scan, at, epoch) == at >= epoch /\ scan = at - epoch + 1

HashNumbered == hash # Absent =>
    /\ cleared < hash.epoch /\ hash.epoch <= begun
    /\ hash.seq = begun - hash.epoch + 1
    /\ \A p \in Policies :
         \/ hash.result[p] = Uncounted
         \/ /\ Numbered(hash.result[p].scan, hash.result[p].begun, hash.epoch)
            /\ hash.result[p].begun <= begun

JobsNumbered == \A j \in Jobs : job[j] # Idle =>
    /\ Numbered(job[j].scan, job[j].begun, job[j].epoch)
    /\ job[j].begun <= begun /\ job[j].epoch <= begun
    /\ hash = Absent => job[j].epoch <= cleared
    /\ hash # Absent /\ job[j].epoch # hash.epoch => job[j].epoch <= cleared

FormNumbered ==
    /\ form.begun <= begun
    /\ hash # Absent =>
         \/ form.begun < hash.epoch
         \/ form.after = form.begun - hash.epoch + 1

IInv == Shapes /\ cleared <= begun /\ HashNumbered /\ JobsNumbered /\ FormNumbered

-----------------------------------------------------------------------------
(* Shapes.                                                                 *)

LEMMA HashShape ==
    /\ \A h \in Hashes : /\ h # Absent /\ h.epoch \in Nat \ {0} /\ h.seq \in Nat
                         /\ h.result \in [Policies -> Results]
    /\ Absent \notin Hashes
    /\ Absent.epoch = 0
<1>1. ASSUME NEW h \in Hashes
      PROVE  h.epoch \in Nat \ {0} /\ h.seq \in Nat /\ h.result \in [Policies -> Results]
  BY DEF Hashes
<1>2. Absent.epoch = 0
  BY DEF Absent
<1> QED BY <1>1, <1>2

LEMMA JobShape ==
    ASSUME NEW s \in Scans
    PROVE  /\ s # Idle /\ s.phase \in {"scanning", "counted"}
           /\ s.epoch \in Nat \ {0} /\ s.scan \in Nat \ {0} /\ s.begun \in Nat \ {0}
           /\ s.phase = "counted" => s.policy \in Policies
<1>1. /\ s.phase \in {"scanning", "counted"}
      /\ s.epoch \in Nat \ {0} /\ s.scan \in Nat \ {0} /\ s.begun \in Nat \ {0}
  BY DEF Scans
<1>2. s.phase = "counted" => s.policy \in Policies
  BY DEF Scans
<1>3. Idle.phase = "idle"
  BY DEF Idle
<1> QED BY <1>1, <1>2, <1>3

LEMMA ResultShape ==
    /\ Uncounted \in Results /\ Uncounted.scan = 0 /\ Uncounted.begun = 0
    /\ \A r \in Results : r.scan \in Nat /\ r.begun \in Nat
  BY DEF Results, Uncounted

-----------------------------------------------------------------------------
(* The first state.                                                        *)

LEMMA InitIInv == Init => IInv
<1> SUFFICES ASSUME Init PROVE IInv
  OBVIOUS
<1>1. Shapes
  BY DEF Init, Shapes, NoForm
<1>2. \A j \in Jobs : job[j] = Idle
  BY DEF Init
<1>3. HashNumbered /\ JobsNumbered /\ FormNumbered
  BY <1>2 DEF Init, HashNumbered, JobsNumbered, FormNumbered, NoForm
<1> QED BY <1>1, <1>3 DEF IInv, Init

-----------------------------------------------------------------------------
(* Every step.                                                             *)

LEMMA StartStep ==
    ASSUME IInv, NEW j \in Jobs, StartScan(j)
    PROVE  IInv'
<1> DEFINE found == IF hash = Absent THEN Born ELSE hash
           scan  == [phase |-> "scanning", epoch |-> found.epoch,
                     scan |-> found.seq + 1, begun |-> begun + 1]
<1>0. Shapes /\ cleared <= begun /\ HashNumbered /\ JobsNumbered /\ FormNumbered
  BY DEF IInv
<1>1. /\ begun \in Nat /\ cleared \in Nat /\ begun' = begun + 1 /\ cleared' = cleared
      /\ policy' = policy /\ form' = form /\ form.begun \in Nat /\ form.after \in Nat
  BY <1>0 DEF StartScan, Shapes
<1>q. queue' \in Nat /\ fault' = fault
  BY <1>0 DEF StartScan, Shapes
<1>2. /\ found \in Hashes /\ found.epoch \in Nat \ {0} /\ found.seq \in Nat
      /\ found.result \in [Policies -> Results]
  <2>1. Born \in Hashes
    BY <1>1, ResultShape DEF Born, Hashes
  <2> QED BY <2>1, <1>0, HashShape DEF Shapes
<1>3. /\ hash' = [found EXCEPT !.seq = @ + 1]
      /\ hash' \in Hashes /\ hash' # Absent
      /\ hash'.epoch = found.epoch /\ hash'.seq = found.seq + 1 /\ hash'.result = found.result
  <2>1. hash' = [found EXCEPT !.seq = @ + 1]
    BY DEF StartScan
  <2>2. hash' \in Hashes /\ hash'.epoch = found.epoch /\ hash'.seq = found.seq + 1
        /\ hash'.result = found.result
    BY <2>1, <1>2 DEF Hashes
  <2> QED BY <2>1, <2>2, HashShape
<1>4. /\ job' = [job EXCEPT ![j] = scan] /\ scan \in Scans
      /\ job'[j] = scan /\ \A k \in Jobs : k # j => job'[k] = job[k]
  BY <1>0, <1>1, <1>2 DEF StartScan, Shapes, Scans
<1>5. Shapes'
  BY <1>0, <1>1, <1>q, <1>3, <1>4 DEF Shapes
\* The number of the scan is its distance from the birth of the epoch.
<1>6. /\ cleared < found.epoch /\ found.epoch <= begun + 1
      /\ found.seq = (begun + 1) - found.epoch
      /\ hash # Absent => found = hash
      /\ hash = Absent => found.epoch = begun + 1 /\ found.result = [p \in Policies |-> Uncounted]
  <2>1. CASE hash = Absent
    BY <2>1, <1>0, <1>1 DEF Born
  <2>2. CASE hash # Absent
    BY <2>2, <1>0, <1>1, <1>2 DEF HashNumbered
  <2> QED BY <2>1, <2>2
<1>7. HashNumbered'
  <2>1. ASSUME NEW p \in Policies
        PROVE  \/ found.result[p] = Uncounted
               \/ /\ Numbered(found.result[p].scan, found.result[p].begun, found.epoch)
                  /\ found.result[p].begun <= begun + 1
    <3>1. CASE hash = Absent
      BY <3>1, <1>6
    <3>2. CASE hash # Absent
      <4>1. found.result[p].begun \in Nat
        BY <1>2, ResultShape
      <4> QED BY <4>1, <3>2, <1>0, <1>1, <1>6 DEF HashNumbered
    <3> QED BY <3>1, <3>2
  <2> QED BY <2>1, <1>1, <1>2, <1>3, <1>6 DEF HashNumbered
<1>8. JobsNumbered'
  <2>1. ASSUME NEW k \in Jobs, job'[k] # Idle
        PROVE  /\ Numbered(job'[k].scan, job'[k].begun, job'[k].epoch)
               /\ job'[k].begun <= begun' /\ job'[k].epoch <= begun'
               /\ job'[k].epoch # hash'.epoch => job'[k].epoch <= cleared'
    <3>1. CASE k = j
      BY <3>1, <1>1, <1>2, <1>3, <1>4, <1>6 DEF Numbered
    <3>2. CASE k # j
      <4>1. /\ job'[k] = job[k] /\ job[k] \in Scans
            /\ job[k].epoch \in Nat /\ job[k].begun \in Nat /\ job[k].scan \in Nat
        BY <3>2, <2>1, <1>0, <1>4, JobShape DEF Shapes
      <4>2. job[k].begun <= begun /\ job[k].epoch <= begun
            /\ Numbered(job[k].scan, job[k].begun, job[k].epoch)
        BY <4>1, <2>1, <1>0 DEF JobsNumbered
      <4>3. job[k].epoch # found.epoch => job[k].epoch <= cleared
        BY <4>1, <2>1, <1>0, <1>6 DEF JobsNumbered
      <4> QED BY <4>1, <4>2, <4>3, <1>1, <1>3
    <3> QED BY <3>1, <3>2
  <2> QED BY <2>1, <1>3 DEF JobsNumbered
<1>9. FormNumbered'
  BY <1>0, <1>1, <1>2, <1>3, <1>6 DEF FormNumbered
<1> QED BY <1>0, <1>1, <1>5, <1>7, <1>8, <1>9 DEF IInv

LEMMA CountStep ==
    ASSUME IInv, NEW j \in Jobs, Count(j)
    PROVE  IInv'
<1> DEFINE scan == [phase |-> "counted", epoch |-> job[j].epoch, scan |-> job[j].scan,
                    begun |-> job[j].begun, policy |-> policy]
<1>0. Shapes /\ cleared <= begun /\ HashNumbered /\ JobsNumbered /\ FormNumbered
  BY DEF IInv
<1>1. job[j] \in Scans /\ job[j] # Idle
  BY <1>0, JobShape DEF Count, Shapes, Idle
<1>2. /\ job' = [job EXCEPT ![j] = scan] /\ scan \in Scans
      /\ job'[j] = scan /\ \A k \in Jobs : k # j => job'[k] = job[k]
  BY <1>0, <1>1, JobShape DEF Count, Shapes, Scans
<1>3. UNCHANGED <<hash, cleared, begun, policy, form, queue, fault>>
  BY DEF Count
<1>4. Shapes'
  BY <1>0, <1>2, <1>3 DEF Shapes
<1>5. JobsNumbered'
  BY <1>0, <1>1, <1>2, <1>3 DEF JobsNumbered
<1>6. HashNumbered' /\ FormNumbered'
  BY <1>0, <1>3 DEF HashNumbered, FormNumbered
<1> QED BY <1>0, <1>3, <1>4, <1>5, <1>6 DEF IInv

LEMMA PublishStep ==
    ASSUME IInv, NEW j \in Jobs, Publish(j)
    PROVE  IInv'
<1> DEFINE p == job[j].policy
           r == [scan |-> job[j].scan, begun |-> job[j].begun]
<1>0. Shapes /\ cleared <= begun /\ HashNumbered /\ JobsNumbered /\ FormNumbered
  BY DEF IInv
<1>1. job[j] \in Scans /\ job[j] # Idle /\ p \in Policies /\ r \in Results
  BY <1>0, JobShape DEF Publish, Shapes, Idle, Results
<1>2. /\ UNCHANGED <<cleared, begun, policy, form, queue, fault>> /\ job' = [job EXCEPT ![j] = Idle]
      /\ job'[j] = Idle /\ \A k \in Jobs : k # j => job'[k] = job[k]
  BY <1>0 DEF Publish, Shapes
<1>3. CASE Accepts(j)
  <2>1. hash # Absent /\ hash \in Hashes /\ hash.epoch = job[j].epoch
    BY <1>0, <1>1, <1>3, JobShape, HashShape DEF Accepts, Shapes
  <2>2. /\ hash' = [hash EXCEPT !.result[p] = r]
        /\ hash' \in Hashes /\ hash' # Absent
        /\ hash'.epoch = hash.epoch /\ hash'.seq = hash.seq
        /\ hash'.result[p] = r /\ \A q \in Policies : q # p => hash'.result[q] = hash.result[q]
    <3>1. hash' = [hash EXCEPT !.result[p] = r]
      BY <1>3 DEF Publish
    <3>2. /\ hash' \in Hashes /\ hash'.epoch = hash.epoch /\ hash'.seq = hash.seq
          /\ hash'.result = [hash.result EXCEPT ![p] = r]
      BY <3>1, <2>1, <1>1 DEF Hashes
    <3> QED BY <3>1, <3>2, <2>1, <1>1, HashShape
  <2>3. Shapes'
    BY <2>2, <1>0, <1>2 DEF Shapes
  <2>4. Numbered(r.scan, r.begun, hash.epoch) /\ r.begun <= begun
    BY <2>1, <1>0, <1>1 DEF JobsNumbered
  <2>5. HashNumbered'
    BY <2>1, <2>2, <2>4, <1>0, <1>2 DEF HashNumbered
  <2>6. JobsNumbered'
    BY <2>1, <2>2, <1>0, <1>2 DEF JobsNumbered
  <2>7. FormNumbered'
    BY <2>1, <2>2, <1>0, <1>2 DEF FormNumbered
  <2> QED BY <2>3, <2>5, <2>6, <2>7, <1>0, <1>2 DEF IInv
<1>4. CASE ~ Accepts(j)
  <2>1. hash' = hash
    BY <1>4 DEF Publish
  <2>2. Shapes'
    BY <2>1, <1>0, <1>2 DEF Shapes
  <2>3. HashNumbered' /\ JobsNumbered' /\ FormNumbered'
    BY <2>1, <1>0, <1>2 DEF HashNumbered, JobsNumbered, FormNumbered
  <2> QED BY <2>2, <2>3, <1>0, <1>2 DEF IInv
<1> QED BY <1>3, <1>4

LEMMA QueueStep ==
    ASSUME Shapes, EnqueueOrOverload
    PROVE  queue' \in Nat /\ fault' \in BOOLEAN
<1>1. queue \in Nat /\ fault \in BOOLEAN
  BY DEF Shapes
<1>2. (queue' = queue + 1 /\ fault' = fault) \/ (queue' = queue /\ fault' = ~ fault)
  BY DEF EnqueueOrOverload, Enqueued
<1>3. queue' \in Nat
  BY <1>1, <1>2
<1>4. fault' \in BOOLEAN
  BY <1>1, <1>2
<1> QED BY <1>3, <1>4

LEMMA OtherSteps ==
    ASSUME IInv,
           \/ \E j \in Jobs : Die(j)
           \/ Evict \/ Daily
           \/ \E p \in Policies : Ask(p) \/ Save(p)
           \/ UNCHANGED vars
    PROVE  IInv'
<1>0. Shapes /\ cleared <= begun /\ HashNumbered /\ JobsNumbered /\ FormNumbered
  BY DEF IInv
<1>1. ASSUME NEW j \in Jobs, Die(j) PROVE IInv'
  <2>1. /\ UNCHANGED <<hash, cleared, begun, policy, form, queue>> /\ fault' \in BOOLEAN
        /\ job' = [job EXCEPT ![j] = Idle]
        /\ job'[j] = Idle /\ \A k \in Jobs : k # j => job'[k] = job[k]
    BY <1>0, <1>1 DEF Die, Shapes
  <2>2. Shapes'
    BY <2>1, <1>0 DEF Shapes
  <2>3. HashNumbered' /\ JobsNumbered' /\ FormNumbered'
    BY <2>1, <1>0 DEF HashNumbered, JobsNumbered, FormNumbered
  <2> QED BY <2>1, <2>2, <2>3, <1>0 DEF IInv
<1>2. ASSUME Evict PROVE IInv'
  <2>1. /\ hash' = Absent /\ cleared' = begun /\ UNCHANGED <<begun, job, policy, form, queue>>
        /\ fault' \in BOOLEAN
    BY <1>2 DEF Evict
  <2>2. Shapes' /\ cleared' <= begun'
    BY <2>1, <1>0 DEF Shapes
  <2>3. HashNumbered' /\ FormNumbered'
    BY <2>1, <1>0 DEF HashNumbered, FormNumbered
  <2>4. JobsNumbered'
    BY <2>1, <1>0 DEF JobsNumbered
  <2> QED BY <2>2, <2>3, <2>4 DEF IInv
<1>3. ASSUME NEW p \in Policies, Ask(p) PROVE IInv'
  <2>1. /\ policy' = p /\ UNCHANGED <<hash, cleared, begun, job>>
        /\ form' = [after |-> LastScan, begun |-> begun]
    BY <1>3 DEF Ask
  <2>2. LastScan \in Nat
    BY <1>0, HashShape DEF LastScan, Shapes
  <2>3. Shapes'
    BY <2>1, <2>2, <1>0, <1>3, QueueStep DEF Shapes, Ask
  <2>4. HashNumbered' /\ JobsNumbered'
    BY <2>1, <1>0 DEF HashNumbered, JobsNumbered
  <2>5. FormNumbered'
    BY <2>1, <1>0 DEF FormNumbered, HashNumbered, LastScan, Shapes
  <2> QED BY <2>1, <2>3, <2>4, <2>5, <1>0 DEF IInv
<1>4. ASSUME NEW p \in Policies, Save(p) PROVE IInv'
  <2>1. policy' \in Policies /\ UNCHANGED <<hash, cleared, begun, job, form>>
    BY <1>4 DEF Save
  <2>2. Shapes'
    BY <2>1, <1>0, <1>4, QueueStep DEF Shapes, Save
  <2>3. HashNumbered' /\ JobsNumbered' /\ FormNumbered'
    BY <2>1, <1>0 DEF HashNumbered, JobsNumbered, FormNumbered
  <2> QED BY <2>1, <2>2, <2>3, <1>0 DEF IInv
<1>5. ASSUME Daily PROVE IInv'
  <2>1. UNCHANGED <<hash, cleared, begun, job, policy, form, fault>> /\ queue' \in Nat
    BY <1>0, <1>5 DEF Daily, Shapes
  <2>2. Shapes'
    BY <2>1, <1>0 DEF Shapes
  <2>3. HashNumbered' /\ JobsNumbered' /\ FormNumbered'
    BY <2>1, <1>0 DEF HashNumbered, JobsNumbered, FormNumbered
  <2> QED BY <2>1, <2>2, <2>3, <1>0 DEF IInv
<1>6. ASSUME UNCHANGED vars PROVE IInv'
  BY <1>0, <1>6 DEF vars, IInv, Shapes, HashNumbered, JobsNumbered, FormNumbered
<1> QED BY <1>1, <1>2, <1>3, <1>4, <1>5, <1>6

LEMMA NextIInv == IInv /\ [Next]_vars => IInv'
  BY StartStep, CountStep, PublishStep, OtherSteps DEF Next

LEMMA AlwaysIInv == Spec => []IInv
  BY InitIInv, NextIInv, PTL DEF Spec

-----------------------------------------------------------------------------
(* What follows.                                                           *)

\* Every variable keeps its shape, for any number of jobs and policies.
THEOREM TypeCorrect == Spec => []TypeOK
<1>1. ASSUME IInv, hash # Absent, NEW p \in Policies
      PROVE  hash.result[p].scan <= hash.seq
  <2>1. /\ hash.result[p].scan \in Nat /\ hash.result[p].begun \in Nat
        /\ hash.epoch \in Nat /\ hash.seq \in Nat /\ begun \in Nat
    BY <1>1, HashShape, ResultShape DEF IInv, Shapes
  <2> QED BY <1>1, <2>1, ResultShape DEF IInv, HashNumbered, Numbered
<1>2. IInv => TypeOK
  BY <1>1 DEF IInv, TypeOK
<1> QED BY <1>2, AlwaysIInv, PTL

LEMMA IInvSettles == IInv => SettledIsNew
<1> SUFFICES ASSUME IInv, hash # Absent, hash.result[policy].scan > form.after
             PROVE  hash.result[policy].begun > form.begun
  BY DEF SettledIsNew
<1>1. /\ policy \in Policies /\ form.after \in Nat /\ form.begun \in Nat
      /\ hash.epoch \in Nat /\ hash.result[policy] \in Results
  BY HashShape DEF IInv, Shapes
<1>2. /\ hash.result[policy].scan \in Nat /\ hash.result[policy].begun \in Nat
      /\ hash.result[policy] # Uncounted
  BY <1>1, ResultShape
<1>3. Numbered(hash.result[policy].scan, hash.result[policy].begun, hash.epoch)
  BY <1>1, <1>2 DEF IInv, HashNumbered
<1> QED BY <1>1, <1>2, <1>3 DEF IInv, FormNumbered, Numbered

\* The form that asked for a recount stops polling only at a count that began
\* after it asked (get_enforcement_preview_scan, pollEnforcementPreview).
THEOREM FormWaitsForNew == Spec => []SettledIsNew
  BY IInvSettles, AlwaysIInv, PTL

\* A publication is a step of the board: the scan is of this epoch, so it began
\* after the last clear, and its number is not lower, so neither is its begin.
LEMMA PublishShows ==
    ASSUME IInv, NEW j \in Jobs, Publish(j), Accepts(j)
    PROVE  Board!Show(job[j].policy)
<1> DEFINE p == job[j].policy
           r == [scan |-> job[j].scan, begun |-> job[j].begun]
<1>0. Shapes /\ cleared <= begun /\ HashNumbered /\ JobsNumbered
  BY DEF IInv
<1>1. job[j] \in Scans /\ job[j] # Idle /\ p \in Policies
  BY <1>0, JobShape DEF Publish, Shapes, Idle
<1>2. /\ job[j].epoch \in Nat \ {0} /\ job[j].scan \in Nat /\ job[j].begun \in Nat
      /\ begun \in Nat /\ cleared \in Nat
  BY <1>0, <1>1, JobShape DEF Shapes
<1>3. /\ hash # Absent /\ hash \in Hashes /\ hash.epoch = job[j].epoch
      /\ ~ (hash.result[p].scan > job[j].scan)
      /\ hash.result \in [Policies -> Results]
  BY <1>0, <1>1, <1>2, HashShape DEF Accepts, Shapes
<1>4. hash.result[p].scan \in Nat /\ hash.result[p].begun \in Nat
  BY <1>1, <1>3, ResultShape
<1>5. job[j].begun \in (cleared + 1)..begun
  BY <1>0, <1>1, <1>2, <1>3 DEF JobsNumbered, HashNumbered, Numbered
<1>6. job[j].begun >= hash.result[p].begun
  <2>1. Numbered(job[j].scan, job[j].begun, hash.epoch)
    BY <1>0, <1>1, <1>3 DEF JobsNumbered
  <2>2. CASE hash.result[p] = Uncounted
    BY <2>2, <1>2, ResultShape
  <2>3. CASE Numbered(hash.result[p].scan, hash.result[p].begun, hash.epoch)
    BY <2>1, <2>3, <1>2, <1>3, <1>4 DEF Numbered
  <2> QED BY <2>2, <2>3, <1>0, <1>1, <1>3 DEF HashNumbered
<1>7. hash' = [hash EXCEPT !.result[p] = r] /\ hash' # Absent
  <2>1. hash' = [hash EXCEPT !.result[p] = r]
    BY DEF Publish
  <2>2. r \in Results
    BY <1>2 DEF Results
  <2>3. hash' \in Hashes
    BY <2>1, <2>2, <1>1, <1>3 DEF Hashes
  <2> QED BY <2>1, <2>3, HashShape
<1>8. hash'.result = [hash.result EXCEPT ![p] = r]
  BY <1>7, <1>3 DEF Hashes
<1>9. Shown' = [Shown EXCEPT ![p] = job[j].begun]
  <2>1. Shown = [q \in Policies |-> hash.result[q].begun]
    BY <1>3 DEF Shown
  <2>2. Shown' = [q \in Policies |-> hash'.result[q].begun]
    BY <1>7 DEF Shown
  <2>3. \A q \in Policies :
          hash'.result[q].begun = IF q = p THEN job[j].begun ELSE hash.result[q].begun
    BY <1>3, <1>8
  <2> QED BY <2>1, <2>2, <2>3, <1>1
<1>10. Shown[p] = hash.result[p].begun
  BY <1>1, <1>3 DEF Shown
<1>11. UNCHANGED <<begun, cleared>>
  BY DEF Publish
<1> QED BY <1>5, <1>6, <1>9, <1>10, <1>11 DEF Board!Show

LEMMA StepIsBoardStep == IInv /\ [Next]_vars => [Board!Next]_Board!vars
<1> SUFFICES ASSUME IInv, [Next]_vars
             PROVE  Board!Next \/ UNCHANGED <<begun, cleared, Shown>>
  BY DEF Board!vars
<1>1. ASSUME NEW j \in Jobs, StartScan(j) PROVE Board!Begin
  <2> DEFINE found == IF hash = Absent THEN Born ELSE hash
  <2>1. /\ begun' = begun + 1 /\ cleared' = cleared
        /\ hash' = [found EXCEPT !.seq = @ + 1]
    BY <1>1 DEF StartScan
  <2>2. found \in Hashes /\ (hash = Absent => found.result = [p \in Policies |-> Uncounted])
    BY ResultShape DEF IInv, Shapes, Born, Hashes
  <2>3. hash' \in Hashes /\ hash'.result = found.result
    BY <2>1, <2>2 DEF Hashes
  <2>4. Shown' = Shown
    BY <2>2, <2>3, HashShape, ResultShape DEF Shown
  <2> QED BY <2>1, <2>4 DEF Board!Begin
<1>2. ASSUME NEW j \in Jobs, Count(j) \/ Die(j) PROVE UNCHANGED <<begun, cleared, Shown>>
  BY <1>2 DEF Count, Die, Shown
<1>3. ASSUME NEW j \in Jobs, Publish(j)
      PROVE  Board!Next \/ UNCHANGED <<begun, cleared, Shown>>
  <2>1. CASE Accepts(j)
    <3>1. job[j].policy \in Policies
      BY <1>3, JobShape DEF Publish, IInv, Shapes, Idle
    <3> QED BY <3>1, <2>1, <1>3, PublishShows DEF Board!Next
  <2>2. CASE ~ Accepts(j)
    BY <2>2, <1>3 DEF Publish, Shown
  <2> QED BY <2>1, <2>2
<1>4. ASSUME Evict PROVE Board!Clear
  BY <1>4 DEF Evict, Board!Clear, Shown
<1>5. ASSUME Daily \/ \E p \in Policies : Ask(p) \/ Save(p) PROVE UNCHANGED <<begun, cleared, Shown>>
  BY <1>5 DEF Ask, Save, Daily, Shown
<1>6. ASSUME UNCHANGED vars PROVE UNCHANGED <<begun, cleared, Shown>>
  BY <1>6 DEF vars, Shown
<1> QED BY <1>1, <1>2, <1>3, <1>4, <1>5, <1>6 DEF Next, Board!Next

\* The hash and its two Lua scripts do what PreviewBoard promises: no scan
\* replaces a later one, none from before a flush is shown after it.
THEOREM BoardImplemented == Spec => ImplementsBoard
<1>1. Init => Board!Init
  BY DEF Init, Board!Init, Shown
<1> QED BY <1>1, StepIsBoardStep, AlwaysIInv, PTL DEF Spec, ImplementsBoard, Board!Spec

-----------------------------------------------------------------------------
(***************************************************************************)
(* The login page.                                                         *)
(*                                                                         *)
(* For any number of ceremonies and of deeds of the user: the page asks    *)
(* for a gesture on the newest ceremony only, unspent and not about to     *)
(* expire; and as long as the user lets an attempt end before he starts    *)
(* the next, it has one call of the browser's open, which it knows.        *)
(*                                                                         *)
(* The first is an invariant of the page's record and the server's, where  *)
(* `Asks' says what each of the script's functions may ask for.  The       *)
(* second, Calm, lists what an attempt consists of and that its parts      *)
(* exclude each other: a call, a request to verify it, the password        *)
(* dialog, a re-begin and the reactions that wait for it.                  *)
(***************************************************************************)
Kinds == {"modal", "conditional"}
Callers == Automatic \cup {"click", "restore"}
Statuses == DOMAIN Legal
Gets == [n : Nat \ {0}, kind : Kinds, state : Nat]
Verifies == [n : Nat \ {0}, source : Kinds, state : Nat]
Pages == [state : Nat, spent : BOOLEAN, aged : BOOLEAN, rearms : Nat, status : Statuses,
          held : Nat, aborted : BOOLEAN, busy : BOOLEAN, callers : Seq(Callers),
          due : Seq(Callers), gets : SUBSET Gets, calls : Nat]

-----------------------------------------------------------------------------
(* The page's functions, field by field.  A page keeps its record, and what *)
(* it has under way with the browser.                                      *)

Record(p, q) ==
    /\ q \in Pages
    /\ q.state = p.state /\ q.spent = p.spent /\ q.aged = p.aged /\ q.rearms = p.rearms
    /\ q.callers = p.callers /\ q.due = p.due
Calls(p, q) ==
    /\ q.gets = p.gets /\ q.calls = p.calls
    /\ q.held = p.held /\ q.aborted = p.aborted /\ q.busy = p.busy

Call(kind, p) == [n |-> p.calls + 1, kind |-> kind, state |-> p.state]
NotHeld(p) == {g \in p.gets : g.n # p.held}

LEMMA ToFields ==
    ASSUME NEW p \in Pages, NEW next \in Statuses
    PROVE  Record(p, To(next, p)) /\ Calls(p, To(next, p))
  BY DEF To, Pages, Record, Calls

LEMMA MarkSpentFields ==
    ASSUME NEW p \in Pages, NEW s
    PROVE  LET q == MarkSpent(s, p)
           IN  /\ q \in Pages /\ Calls(p, q)
               /\ q.state = p.state /\ q.aged = p.aged /\ q.rearms = p.rearms
               /\ q.callers = p.callers /\ q.due = p.due
               /\ q.spent <=> p.spent \/ s = p.state
  BY DEF MarkSpent, Pages, Calls

LEMMA MarkRearmFields ==
    ASSUME NEW p \in Pages
    PROVE  LET q == MarkRearm(p)
           IN  /\ q \in Pages /\ Calls(p, q)
               /\ q.state = p.state /\ q.spent = p.spent /\ q.aged = p.aged
               /\ q.callers = p.callers /\ q.due = p.due
               /\ q.rearms = p.rearms + 1
  BY DEF MarkRearm, Pages, Calls

LEMMA AbortFields ==
    ASSUME NEW p \in Pages
    PROVE  LET q == AbortConditional(p)
           IN  /\ Record(p, q) /\ q.gets = NotHeld(p) /\ q.calls = p.calls
               /\ q.held = 0 /\ q.busy = p.busy
               /\ q.aborted <=> p.aborted \/ p.held # 0
  BY DEF AbortConditional, Pages, Record, NotHeld

LEMMA TaskFields ==
    ASSUME NEW p \in Pages
    PROVE  LET q == Task(p)
           IN  /\ Record(p, q) /\ q.gets = p.gets /\ q.calls = p.calls /\ q.busy = p.busy
               /\ q.held = IF p.due = <<>> /\ p.aborted THEN 0 ELSE p.held
               /\ q.aborted <=> p.aborted /\ p.due # <<>>
  BY DEF Task, Pages, Record

LEMMA RebeginFields ==
    ASSUME NEW p \in Pages, NEW c \in Callers
    PROVE  LET q == Rebegin(c, p)
           IN  /\ q \in Pages /\ Calls(p, q)
               /\ q.state = p.state /\ q.spent = p.spent /\ q.aged = p.aged
               /\ q.rearms = p.rearms /\ q.due = p.due
               /\ q.callers = Append(p.callers, c)
<1> DEFINE cs == Append(p.callers, c)
<1>1. cs \in Seq(Callers)
  BY DEF Pages
<1>2. Rebegin(c, p) = [p EXCEPT !.callers = cs]
  BY DEF Rebegin
<1> HIDE DEF cs
<1>3. LET q == Rebegin(c, p)
      IN  /\ q \in Pages /\ Calls(p, q)
          /\ q.state = p.state /\ q.spent = p.spent /\ q.aged = p.aged
          /\ q.rearms = p.rearms /\ q.due = p.due
          /\ q.callers = cs
  BY <1>1, <1>2 DEF Pages, Calls
<1> QED BY <1>3 DEF cs

LEMMA GetFields ==
    ASSUME NEW p \in Pages, NEW kind \in Kinds
    PROVE  LET q == Get(kind, p)
           IN  /\ Record(p, q) /\ Call(kind, p) \in Gets
               /\ q.gets = p.gets \cup {Call(kind, p)} /\ q.calls = p.calls + 1
               /\ q.held = p.held /\ q.aborted = p.aborted /\ q.busy = p.busy
<1> DEFINE gs == p.gets \cup {Call(kind, p)}
           n == p.calls + 1
<1>1. Call(kind, p) \in Gets
  BY DEF Gets, Pages, Call
<1>2. gs \in SUBSET Gets /\ n \in Nat
  BY <1>1 DEF Pages
<1>3. Get(kind, p) = [[p EXCEPT !.calls = n] EXCEPT !.gets = gs]
  BY DEF Get, Pages, Call
<1> HIDE DEF gs, n
<1>4. LET q == Get(kind, p)
      IN  /\ Record(p, q) /\ q.gets = gs /\ q.calls = n
          /\ q.held = p.held /\ q.aborted = p.aborted /\ q.busy = p.busy
  BY <1>2, <1>3 DEF Pages, Record
<1> QED BY <1>1, <1>4 DEF gs, n

LEMMA StartConditionalFields ==
    ASSUME NEW p \in Pages
    PROVE  LET q == StartConditional(p)
           IN  /\ Record(p, q) /\ q.busy = p.busy
               /\ \/ Calls(p, q)
                  \/ /\ ~ p.busy
                     /\ q.gets = NotHeld(p) \cup {Call("conditional", p)}
                     /\ q.calls = p.calls + 1 /\ q.held = p.calls + 1
                     /\ q.aborted <=> p.aborted \/ p.held # 0
<1> DEFINE a == AbortConditional(p)
           b == Get("conditional", a)
           c == [b EXCEPT !.held = b.calls]
<1>1. CASE autofill /\ ~ p.busy
  <2>1. /\ Record(p, a) /\ a.gets = NotHeld(p) /\ a.calls = p.calls
        /\ a.held = 0 /\ a.busy = p.busy
        /\ a.aborted <=> p.aborted \/ p.held # 0
    BY AbortFields
  <2>2. a \in Pages /\ Call("conditional", a) = Call("conditional", p)
    BY <2>1 DEF Record, Call
  <2> HIDE DEF a
  <2>3. /\ Record(a, b) /\ b.gets = a.gets \cup {Call("conditional", a)}
        /\ b.calls = a.calls + 1 /\ b.aborted = a.aborted /\ b.busy = a.busy
    BY <2>2, GetFields DEF Kinds
  <2>4. StartConditional(p) = c
    BY <1>1 DEF StartConditional, a
  <2> HIDE DEF b
  <2>5. /\ Record(b, c) /\ c.gets = b.gets /\ c.calls = b.calls /\ c.held = b.calls
        /\ c.aborted = b.aborted /\ c.busy = b.busy
    BY <2>3 DEF Record, Pages
  <2> HIDE DEF c
  <2>6. Record(p, c)
    BY <2>1, <2>3, <2>5 DEF Record
  <2>7. /\ c.gets = NotHeld(p) \cup {Call("conditional", p)}
        /\ c.calls = p.calls + 1 /\ c.held = p.calls + 1
        /\ c.busy = p.busy
        /\ c.aborted <=> p.aborted \/ p.held # 0
    BY <2>1, <2>2, <2>3, <2>5
  <2> QED BY <1>1, <2>4, <2>6, <2>7
<1>2. CASE ~ (autofill /\ ~ p.busy)
  BY <1>2 DEF StartConditional, Record, Calls
<1> QED BY <1>1, <1>2

LEMMA ProceedFields ==
    ASSUME NEW p \in Pages
    PROVE  LET q == Proceed(p)
           IN  /\ Record(p, q) /\ q.busy
               /\ p.busy => Calls(p, q)
               /\ ~ p.busy =>
                    /\ q.gets = NotHeld(p) \cup {Call("modal", p)}
                    /\ q.calls = p.calls + 1 /\ q.held = 0
                    /\ q.aborted <=> p.aborted \/ p.held # 0
<1> DEFINE r == [p EXCEPT !.busy = TRUE]
           a == AbortConditional(r)
           b == Get("modal", a)
           c == To("waiting", b)
<1>1. CASE p.busy
  BY <1>1 DEF Proceed, Record, Calls
<1>2. CASE ~ p.busy
  <2>1. /\ Record(p, r) /\ r.gets = p.gets /\ r.calls = p.calls /\ r.held = p.held
        /\ r.aborted = p.aborted /\ r.busy
    BY DEF Pages, Record
  <2>2. r \in Pages
    BY <2>1 DEF Record
  <2> HIDE DEF r
  <2>3. /\ Record(r, a) /\ a.gets = NotHeld(r) /\ a.calls = r.calls
        /\ a.held = 0 /\ a.busy = r.busy
        /\ a.aborted <=> r.aborted \/ r.held # 0
    BY <2>2, AbortFields
  <2>4. a \in Pages /\ Call("modal", a) = Call("modal", p) /\ NotHeld(r) = NotHeld(p)
    BY <2>1, <2>3 DEF Record, Call, NotHeld
  <2> HIDE DEF a
  <2>5. /\ Record(a, b) /\ b.gets = a.gets \cup {Call("modal", a)}
        /\ b.calls = a.calls + 1 /\ b.held = a.held /\ b.aborted = a.aborted /\ b.busy = a.busy
    BY <2>4, GetFields DEF Kinds
  <2>6. b \in Pages /\ "waiting" \in Statuses
    BY <2>5 DEF Record, Statuses, Legal
  <2>7. Proceed(p) = c
    BY <1>2 DEF Proceed, r, a
  <2> HIDE DEF b
  <2>8. Record(b, c) /\ Calls(b, c)
    BY <2>6, ToFields
  <2> HIDE DEF c
  <2>9. Record(p, c)
    BY <2>1, <2>3, <2>5, <2>8 DEF Record
  <2>10. /\ c.gets = NotHeld(p) \cup {Call("modal", p)}
         /\ c.calls = p.calls + 1 /\ c.held = 0 /\ c.busy
         /\ c.aborted <=> p.aborted \/ p.held # 0
    BY <2>1, <2>3, <2>4, <2>5, <2>8 DEF Calls
  <2> QED BY <1>2, <2>7, <2>9, <2>10
<1> QED BY <1>1, <1>2

LEMMA SettledFields ==
    ASSUME page \in Pages, NEW g \in page.gets
    PROVE  LET q == SettledGet(g)
           IN  /\ Record(page, q) /\ q.gets = page.gets \ {g} /\ q.calls = page.calls
               /\ q.aborted = page.aborted
               /\ g.kind = "modal" => ~ q.busy /\ q.held = page.held
               /\ g.kind # "modal" => q.busy = page.busy /\ q.held = 0
<1> DEFINE gs == page.gets \ {g}
           r == [page EXCEPT !.gets = gs]
<1>1. gs \in SUBSET Gets
  BY DEF Pages
<1> HIDE DEF gs
<1>2. /\ Record(page, r) /\ r.gets = gs /\ r.calls = page.calls /\ r.aborted = page.aborted
      /\ r.busy = page.busy /\ r.held = page.held
  BY <1>1 DEF Pages, Record
<1>3. r \in Pages
  BY <1>2 DEF Record
<1>4. SettledGet(g) = IF g.kind = "modal" THEN [r EXCEPT !.busy = FALSE]
                                            ELSE [r EXCEPT !.held = 0]
  BY DEF SettledGet, gs
<1> HIDE DEF r
<1>5. CASE g.kind = "modal"
  <2>1. SettledGet(g) = [r EXCEPT !.busy = FALSE]
    BY <1>4, <1>5
  <2>2. LET q == [r EXCEPT !.busy = FALSE]
        IN  /\ Record(r, q) /\ q.gets = r.gets /\ q.calls = r.calls /\ q.aborted = r.aborted
            /\ ~ q.busy /\ q.held = r.held
    BY <1>3 DEF Record, Pages
  <2> QED BY <1>2, <1>5, <2>1, <2>2 DEF Record, gs
<1>6. CASE g.kind # "modal"
  <2>1. SettledGet(g) = [r EXCEPT !.held = 0]
    BY <1>4, <1>6
  <2>2. LET q == [r EXCEPT !.held = 0]
        IN  /\ Record(r, q) /\ q.gets = r.gets /\ q.calls = r.calls /\ q.aborted = r.aborted
            /\ q.busy = r.busy /\ q.held = 0
    BY <1>3 DEF Record, Pages
  <2> QED BY <1>2, <1>6, <2>1, <2>2 DEF Record, gs
<1> QED BY <1>5, <1>6

\* What may add a caller of rebegin and asks for nothing.
Waits(p, q) ==
    /\ q \in Pages /\ Calls(p, q)
    /\ q.state = p.state /\ q.spent = p.spent /\ q.aged = p.aged /\ q.rearms = p.rearms
    /\ q.due = p.due

LEMMA RearmAfterFields ==
    ASSUME NEW p \in Pages
    PROVE  LET q == RearmAfterVisibleFailure(p)
           IN  /\ Waits(p, q)
               /\ \/ q.callers = p.callers
                  \/ p.rearms < 1 /\ q.callers = Append(p.callers, "rearm")
<1>1. CASE CanRearm(p)
  <2>1. RearmAfterVisibleFailure(p) = Rebegin("rearm", p) /\ "rearm" \in Callers
    BY <1>1 DEF RearmAfterVisibleFailure, Callers, Automatic
  <2> QED BY <1>1, <2>1, RebeginFields DEF Waits, CanRearm, MaxRearm
<1>2. CASE ~ CanRearm(p)
  BY <1>2 DEF RearmAfterVisibleFailure, Waits, Calls
<1> QED BY <1>1, <1>2

LEMMA FailsFields ==
    ASSUME NEW p \in Pages, NEW status \in Statuses
    PROVE  LET q == RearmAfterVisibleFailure(To(status, p))
           IN  /\ Waits(p, q)
               /\ \/ q.callers = p.callers
                  \/ p.rearms < 1 /\ q.callers = Append(p.callers, "rearm")
<1> DEFINE t == To(status, p)
<1>1. Record(p, t) /\ Calls(p, t)
  BY ToFields
<1>2. t \in Pages
  BY <1>1 DEF Record
<1> HIDE DEF t
<1>3. LET q == RearmAfterVisibleFailure(t)
      IN  /\ Waits(t, q)
          /\ \/ q.callers = t.callers
             \/ t.rearms < 1 /\ q.callers = Append(t.callers, "rearm")
  BY <1>2, RearmAfterFields
<1>4. LET q == RearmAfterVisibleFailure(t)
      IN  /\ Waits(p, q)
          /\ \/ q.callers = p.callers
             \/ p.rearms < 1 /\ q.callers = Append(p.callers, "rearm")
  BY <1>1, <1>3 DEF Waits, Calls, Record
<1> QED BY <1>4 DEF t

LEMMA AfterFields ==
    ASSUME NEW p \in Pages, NEW source,
           NEW answer \in {"expired", "unknown", "typed", "uv_setup", "other"}
    PROVE  LET q == After(answer, source, p)
           IN  /\ Waits(p, q)
               /\ \/ q.callers = p.callers
                  \/ \E c \in Automatic : q.callers = Append(p.callers, c)
<1>1. Automatic \subseteq Callers /\ "rearm" \in Automatic
  BY DEF Callers, Automatic
<1>2. {"failed", "removed", "idle"} \subseteq Statuses
  BY DEF Statuses, Legal
<1>3. ASSUME NEW status \in Statuses
      PROVE  /\ Waits(p, To(status, p)) /\ To(status, p).callers = p.callers
  BY <1>3, ToFields DEF Record, Waits
<1>4. Waits(p, p)
  BY DEF Waits, Calls
<1>5. CASE answer = "expired"
  <2>1. CASE CanRearm(p)
    <3>1. Expired(source) \in Automatic
      BY DEF Expired, Automatic
    <3>2. After(answer, source, p) = Rebegin(Expired(source), p)
      BY <1>5, <2>1 DEF After
    <3> QED BY <1>1, <3>1, <3>2, RebeginFields DEF Waits
  <2>2. CASE ~ CanRearm(p)
    <3>1. After(answer, source, p) = To("failed", p)
      BY <1>5, <2>2 DEF After
    <3> QED BY <1>2, <1>3, <3>1
  <2> QED BY <2>1, <2>2
<1>6. CASE answer = "unknown"
  <2>1. After(answer, source, p) = RearmAfterVisibleFailure(To("removed", p))
    BY <1>6 DEF After
  <2> QED BY <1>1, <1>2, <2>1, FailsFields
<1>7. CASE answer = "typed"
  <2>1. After(answer, source, p) = RearmAfterVisibleFailure(To("failed", p))
    BY <1>7 DEF After
  <2> QED BY <1>1, <1>2, <2>1, FailsFields
<1>8. CASE answer = "uv_setup"
  <2>1. After(answer, source, p) = To("idle", p)
    BY <1>8 DEF After
  <2> QED BY <1>2, <1>3, <2>1
<1>9. CASE answer = "other"
  <2>1. \/ After(answer, source, p) = To("failed", p)
        \/ After(answer, source, p) = p
    BY <1>9 DEF After
  <2> QED BY <1>2, <1>3, <1>4, <2>1
<1> QED BY <1>5, <1>6, <1>7, <1>8, <1>9

-----------------------------------------------------------------------------
(* A gesture is asked for on the page's own ceremony, unspent.             *)

Asks(p, q) ==
    /\ q \in Pages /\ q.state = p.state /\ q.aged = p.aged /\ q.due = p.due
    /\ p.spent => q.spent
    /\ p.calls <= q.calls
    /\ \A g \in q.gets :
         \/ g \in p.gets
         \/ /\ g.n > p.calls /\ g.n <= q.calls /\ g.state = p.state
            /\ g.kind = "modal" => ~ p.spent /\ ~ p.aged

LEMMA AsksTransitive ==
    ASSUME NEW p \in Pages, NEW q, NEW r, Asks(p, q), Asks(q, r)
    PROVE  Asks(p, r)
<1>1. p.calls \in Nat /\ q.calls \in Nat /\ r.calls \in Nat
  BY DEF Asks, Pages
<1>2. q.gets \subseteq Gets /\ r.gets \subseteq Gets
  BY DEF Asks, Pages
<1>3. ASSUME NEW g \in r.gets
      PROVE  \/ g \in p.gets
             \/ /\ g.n > p.calls /\ g.n <= r.calls /\ g.state = p.state
                /\ g.kind = "modal" => ~ p.spent /\ ~ p.aged
  <2>1. g.n \in Nat
    BY <1>2 DEF Gets
  <2>2. CASE g \in q.gets
    BY <1>1, <2>1, <2>2 DEF Asks
  <2>3. CASE g \notin q.gets
    BY <1>1, <2>1, <2>3 DEF Asks
  <2> QED BY <2>2, <2>3
<1> QED BY <1>1, <1>3 DEF Asks

LEMMA AsksNothing ==
    ASSUME NEW p \in Pages, NEW q \in Pages, q.state = p.state, q.aged = p.aged,
           q.due = p.due, p.spent => q.spent, q.calls = p.calls, q.gets \subseteq p.gets
    PROVE  Asks(p, q)
<1>1. p.calls \in Nat
  BY DEF Pages
<1> QED BY <1>1 DEF Asks

LEMMA AbortAsks ==
    ASSUME NEW p \in Pages PROVE Asks(p, AbortConditional(p))
  BY AbortFields, AsksNothing DEF Record, NotHeld

LEMMA TaskAsks ==
    ASSUME NEW p \in Pages PROVE Asks(p, Task(p))
  BY TaskFields, AsksNothing DEF Record

LEMMA ToAsks ==
    ASSUME NEW p \in Pages, NEW next \in Statuses PROVE Asks(p, To(next, p))
  BY ToFields, AsksNothing DEF Record, Calls

LEMMA MarkSpentAsks ==
    ASSUME NEW p \in Pages, NEW s PROVE Asks(p, MarkSpent(s, p))
  BY MarkSpentFields, AsksNothing DEF Calls

LEMMA MarkRearmAsks ==
    ASSUME NEW p \in Pages PROVE Asks(p, MarkRearm(p))
  BY MarkRearmFields, AsksNothing DEF Calls

LEMMA RebeginAsks ==
    ASSUME NEW p \in Pages, NEW c \in Callers PROVE Asks(p, Rebegin(c, p))
  BY RebeginFields, AsksNothing DEF Calls

LEMMA WaitsAsks ==
    ASSUME NEW p \in Pages, NEW q, Waits(p, q) PROVE Asks(p, q)
  BY AsksNothing DEF Waits, Calls

LEMMA OneCallAsks ==
    ASSUME NEW p \in Pages, NEW q, NEW kind, Record(p, q),
           q.gets = NotHeld(p) \cup {Call(kind, p)}, q.calls = p.calls + 1,
           kind = "modal" => ~ p.spent /\ ~ p.aged
    PROVE  Asks(p, q)
<1>1. p.calls \in Nat
  BY DEF Pages
<1>2. p.calls <= q.calls /\ p.calls + 1 > p.calls /\ p.calls + 1 <= q.calls
  BY <1>1
<1>3. ASSUME NEW g \in q.gets, g \notin p.gets
      PROVE  /\ g.n > p.calls /\ g.n <= q.calls /\ g.state = p.state
             /\ g.kind = "modal" => ~ p.spent /\ ~ p.aged
  <2>1. g = Call(kind, p)
    BY <1>3 DEF NotHeld
  <2>2. g.n = p.calls + 1 /\ g.kind = kind /\ g.state = p.state
    BY <2>1 DEF Call
  <2> QED BY <1>2, <2>2
<1> QED BY <1>2, <1>3 DEF Asks, Record

LEMMA StartConditionalAsks ==
    ASSUME NEW p \in Pages PROVE Asks(p, StartConditional(p))
<1> DEFINE q == StartConditional(p)
<1>1. Record(p, q)
  BY StartConditionalFields
<1>2. CASE Calls(p, q)
  BY <1>1, <1>2, AsksNothing DEF Record, Calls
<1>3. CASE q.gets = NotHeld(p) \cup {Call("conditional", p)} /\ q.calls = p.calls + 1
  BY <1>1, <1>3, OneCallAsks
<1> QED BY <1>2, <1>3, StartConditionalFields

LEMMA ProceedAsks ==
    ASSUME NEW p \in Pages, ~ p.spent, ~ p.aged PROVE Asks(p, Proceed(p))
<1> DEFINE q == Proceed(p)
<1>1. Record(p, q)
  BY ProceedFields
<1>2. CASE Calls(p, q)
  BY <1>1, <1>2, AsksNothing DEF Record, Calls
<1>3. CASE q.gets = NotHeld(p) \cup {Call("modal", p)} /\ q.calls = p.calls + 1
  BY <1>1, <1>3, OneCallAsks
<1> QED BY <1>2, <1>3, ProceedFields

LEMMA ModalGetAsks ==
    ASSUME NEW p \in Pages
    PROVE  Asks(p, ModalGet(p)) /\ ModalGet(p).spent = p.spent
<1>1. CASE NeedsPreModalRebegin(p)
  <2>1. ModalGet(p) = Rebegin("click", p) /\ "click" \in Callers
    BY <1>1 DEF ModalGet, Callers
  <2> QED BY <2>1, RebeginAsks, RebeginFields
<1>2. CASE ~ NeedsPreModalRebegin(p)
  <2>1. ModalGet(p) = Proceed(p) /\ ~ p.spent /\ ~ p.aged
    BY <1>2 DEF ModalGet, NeedsPreModalRebegin
  <2> QED BY <2>1, ProceedAsks, ProceedFields DEF Record
<1> QED BY <1>1, <1>2

LEMMA ResumeAsks ==
    ASSUME NEW p \in Pages, NEW c \in Callers, ~ p.spent, ~ p.aged
    PROVE  Asks(p, Resume(p, c)) /\ Resume(p, c).spent = p.spent
<1> DEFINE m == MarkRearm(p)
<1>1. Asks(p, m) /\ m \in Pages /\ m.spent = p.spent
  BY MarkRearmAsks, MarkRearmFields
<1>2. CASE c = "click"
  <2>1. Resume(p, c) = Proceed(p)
    BY <1>2 DEF Resume
  <2> QED BY <2>1, ProceedAsks, ProceedFields DEF Record
<1>3. CASE c = "restore"
  <2>1. Resume(p, c) = StartConditional(p)
    BY <1>3 DEF Resume
  <2> QED BY <2>1, StartConditionalAsks, StartConditionalFields DEF Record
<1>4. CASE c = "expired_modal"
  <2>1. Resume(p, c) = ModalGet(m)
    BY <1>4 DEF Resume
  <2> HIDE DEF m
  <2> QED BY <1>1, <2>1, ModalGetAsks, AsksTransitive
<1>5. CASE c \notin {"click", "restore", "expired_modal"}
  <2>1. Resume(p, c) = StartConditional(m)
    BY <1>5 DEF Resume
  <2> HIDE DEF m
  <2>2. Asks(m, StartConditional(m)) /\ StartConditional(m).spent = m.spent
    BY <1>1, StartConditionalAsks, StartConditionalFields DEF Record
  <2> QED BY <1>1, <2>1, <2>2, AsksTransitive
<1> QED BY <1>2, <1>3, <1>4, <1>5

-----------------------------------------------------------------------------
(* The page's ceremony is the newest, and it is spent once it was sent.    *)

PageShapes ==
    /\ page \in Pages /\ verifies \subseteq Verifies
    /\ begins \in Nat /\ used \subseteq Nat /\ auto \in Nat

Sent(s) == s \in used \/ \E v \in verifies : v.state = s

Newest ==
    /\ page.state = begins
    /\ \A g \in page.gets : g.state <= begins /\ g.n <= page.calls
    /\ \A v \in verifies : v.state <= begins
    /\ \A s \in used : s <= begins
    /\ Sent(begins) => page.spent
    /\ page.due # <<>> => ~ page.spent /\ ~ page.aged

Fresh ==
    \A g \in page'.gets : g.kind = "modal" /\ g.n > page.calls =>
         /\ g.state = begins' /\ ~ page'.aged
         /\ g.state \notin used \cup {v.state : v \in verifies}

\* A step within a ceremony.
LEMMA WithinCeremony ==
    ASSUME PageShapes, Newest, Asks(page, page'), begins' = begins,
           page'.due = <<>> \/ page'.spent = page.spent,
           \A v \in verifies' : v.state <= begins, \A s \in used' : s <= begins,
           Sent(begins)' => page'.spent
    PROVE  Newest' /\ Fresh
<1>1. /\ page \in Pages /\ page.calls \in Nat /\ page.calls <= page'.calls /\ page'.calls \in Nat
      /\ page'.gets \subseteq Gets /\ begins \in Nat
  BY DEF PageShapes, Asks, Pages
<1>2. page'.state = begins'
  BY DEF Newest, Asks
<1>3. ASSUME NEW g \in page'.gets
      PROVE  g.state <= begins' /\ g.n <= page'.calls
  <2>1. g.n \in Nat /\ g.state \in Nat
    BY <1>1 DEF Gets
  <2>2. CASE g \in page.gets
    BY <1>1, <2>1, <2>2 DEF Newest
  <2>3. CASE g \notin page.gets
    BY <1>1, <1>2, <2>1, <2>3 DEF Newest, Asks
  <2> QED BY <2>2, <2>3
<1>4. page'.due # <<>> => ~ page'.spent /\ ~ page'.aged
  BY DEF Newest, Asks
<1>5. Newest'
  BY <1>2, <1>3, <1>4 DEF Newest, Sent
<1>6. ASSUME NEW g \in page'.gets, g.kind = "modal", g.n > page.calls
      PROVE  /\ g.state = begins' /\ ~ page'.aged
             /\ g.state \notin used \cup {v.state : v \in verifies}
  <2>1. g.n \in Nat
    BY <1>1 DEF Gets
  <2>2. g \notin page.gets
    BY <1>1, <1>6, <2>1 DEF Newest
  <2>3. g.state = page.state /\ ~ page.spent /\ ~ page.aged
    BY <1>6, <2>2 DEF Asks
  <2>4. ~ Sent(begins) /\ g.state = begins
    BY <2>3 DEF Newest
  <2> QED BY <2>3, <2>4 DEF Sent, Asks
<1> QED BY <1>5, <1>6 DEF Fresh

\* Most steps leave what was sent as it is.
LEMMA NothingSent ==
    ASSUME PageShapes, Newest, Asks(page, page'), UNCHANGED <<verifies, begins, used>>,
           page'.due = <<>> \/ page'.spent = page.spent
    PROVE  Newest' /\ Fresh
<1>1. Sent(begins)' => page'.spent
  BY DEF Sent, Newest, Asks
<1>2. (\A v \in verifies' : v.state <= begins) /\ (\A s \in used' : s <= begins)
  BY DEF Newest
<1> QED BY <1>1, <1>2, WithinCeremony

LEMMA CountAutoNat ==
    ASSUME PageShapes, CountAuto PROVE auto' \in Nat
  BY DEF PageShapes, CountAuto

\* What every step keeps, and what it asks for.
Good == PageShapes' /\ Newest' /\ Fresh

LEMMA ClickGood ==
    ASSUME PageShapes, Newest, Free, Click PROVE Good
<1> DEFINE a == AbortConditional(page)
           m == ModalGet(a)
           t == Task(m)
<1>1. page \in Pages /\ page.due = <<>>
  BY DEF PageShapes, Free
<1>2. Asks(page, a)
  BY <1>1, AbortAsks
<1>3. a \in Pages
  BY <1>2 DEF Asks
<1> HIDE DEF a
<1>4. Asks(a, m)
  BY <1>3, ModalGetAsks
<1>5. m \in Pages
  BY <1>4 DEF Asks
<1> HIDE DEF m
<1>6. Asks(m, t)
  BY <1>5, TaskAsks
<1>7. Asks(page, t)
  BY <1>1, <1>2, <1>4, <1>6, AsksTransitive
<1>8. page' = t /\ UNCHANGED <<verifies, begins, used>> /\ auto' = 0
  BY DEF Click, Deed, server, a, m
<1> HIDE DEF t
<1>9. page' \in Pages /\ page'.due = <<>>
  BY <1>1, <1>7, <1>8 DEF Asks
<1>10. Newest' /\ Fresh
  BY <1>7, <1>8, <1>9, NothingSent
<1>11. PageShapes'
  BY <1>8, <1>9 DEF PageShapes
<1> QED BY <1>10, <1>11 DEF Good

LEMMA PickGood ==
    ASSUME PageShapes, Newest, Free, PickPasskey PROVE Good
<1> PICK g \in page.gets :
      /\ Deed /\ RunVerify(g, SettledGet(g))
      /\ UNCHANGED <<autofill, setup, server, overtaken, silent>>
  BY DEF PickPasskey
<1> DEFINE v == [n |-> g.n, state |-> g.state, source |-> g.kind]
           s == SettledGet(g)
           m == MarkSpent(g.state, s)
           t == To("verifying", m)
<1>1. page \in Pages /\ page.due = <<>> /\ g \in Gets /\ "verifying" \in Statuses
  BY DEF PageShapes, Free, Pages, Statuses, Legal
<1>2. page' = t /\ verifies' = verifies \cup {v} /\ UNCHANGED <<begins, used>> /\ auto' = 0
  BY DEF RunVerify, server, Deed
<1>3. Record(page, s) /\ s.gets = page.gets \ {g} /\ s.calls = page.calls
  BY <1>1, SettledFields
<1>4. Asks(page, s)
  BY <1>1, <1>3, AsksNothing DEF Record
<1>5. s \in Pages /\ s.state = page.state
  BY <1>3 DEF Record
<1> HIDE DEF s
<1>6. Asks(s, m) /\ m \in Pages /\ (g.state = page.state => m.spent)
  BY <1>5, MarkSpentAsks, MarkSpentFields
<1> HIDE DEF m
<1>7. Asks(m, t) /\ t.spent = m.spent
  BY <1>1, <1>6, ToAsks, ToFields DEF Record
<1> HIDE DEF t
<1>8. Asks(page, page')
  BY <1>1, <1>2, <1>4, <1>6, <1>7, AsksTransitive
<1>9. page' \in Pages /\ page'.due = <<>>
  BY <1>1, <1>8 DEF Asks
<1>10. v \in Verifies /\ v.state = g.state
  BY <1>1 DEF Verifies, Gets
<1> HIDE DEF v
<1>11. g.state <= begins /\ (g.state = begins => page'.spent)
  BY <1>2, <1>6, <1>7 DEF Newest
<1>12. \A w \in verifies' : w.state <= begins
  BY <1>2, <1>10, <1>11 DEF Newest
<1>13. Sent(begins)' => page'.spent
  BY <1>2, <1>8, <1>10, <1>11 DEF Newest, Sent, Asks
<1>14. \A u \in used' : u <= begins
  BY <1>2 DEF Newest
<1>15. Newest' /\ Fresh
  BY <1>2, <1>8, <1>9, <1>12, <1>13, <1>14, WithinCeremony
<1>16. PageShapes'
  BY <1>2, <1>9, <1>10 DEF PageShapes
<1> QED BY <1>15, <1>16 DEF Good

LEMMA PageShowGood ==
    ASSUME PageShapes, Newest, Free, PageShow PROVE Good
<1> DEFINE a == AbortConditional(page)
           b == [a EXCEPT !.busy = FALSE]
           m == MarkSpent(page.state, b)
           r == Rebegin("restore", m)
           t == Task(r)
<1>1. page \in Pages /\ page.due = <<>> /\ "restore" \in Callers
  BY DEF PageShapes, Free, Callers
<1>2. page' = t /\ UNCHANGED <<verifies, begins, used>> /\ auto' = 0
  BY DEF PageShow, server, Deed
<1>3. Asks(page, a)
  BY <1>1, AbortAsks
<1>4. a \in Pages
  BY <1>3 DEF Asks
<1> HIDE DEF a
<1>5. /\ b \in Pages /\ b.state = a.state /\ b.aged = a.aged /\ b.due = a.due
      /\ b.spent = a.spent /\ b.calls = a.calls /\ b.gets = a.gets
  BY <1>4 DEF Pages
<1> HIDE DEF b
<1>6. Asks(a, b)
  BY <1>4, <1>5, AsksNothing
<1>7. Asks(b, m) /\ m \in Pages
  BY <1>5, MarkSpentAsks, MarkSpentFields
<1> HIDE DEF m
<1>8. Asks(m, r) /\ r \in Pages
  BY <1>1, <1>7, RebeginAsks, RebeginFields
<1> HIDE DEF r
<1>9. Asks(r, t)
  BY <1>8, TaskAsks
<1> HIDE DEF t
<1>10. Asks(page, page')
  BY <1>1, <1>2, <1>3, <1>6, <1>7, <1>8, <1>9, AsksTransitive
<1>11. page' \in Pages /\ page'.due = <<>>
  BY <1>1, <1>10 DEF Asks
<1>12. Newest' /\ Fresh
  BY <1>2, <1>10, <1>11, NothingSent
<1>13. PageShapes'
  BY <1>2, <1>11 DEF PageShapes
<1> QED BY <1>12, <1>13 DEF Good

LEMMA GetFailsGood ==
    ASSUME PageShapes, Newest, Free, NEW g \in page.gets, GetFails(g) PROVE Good
<1> DEFINE s == SettledGet(g)
           m == MarkSpent(g.state, s)
           c == To("cancelled", m)
           r == RearmAfterVisibleFailure(c)
<1>1. page \in Pages /\ page.due = <<>> /\ "cancelled" \in Statuses
  BY DEF PageShapes, Free, Statuses, Legal
<1>2. (page' = m \/ page' = r) /\ UNCHANGED <<verifies, begins, used>>
  BY DEF GetFails, server
<1>3. Asks(page, s)
  BY <1>1, SettledFields, AsksNothing DEF Record
<1>4. s \in Pages
  BY <1>3 DEF Asks
<1> HIDE DEF s
<1>5. Asks(s, m) /\ m \in Pages
  BY <1>4, MarkSpentAsks, MarkSpentFields
<1> HIDE DEF m
<1>6. Asks(m, c) /\ c \in Pages
  BY <1>1, <1>5, ToAsks, ToFields DEF Record
<1> HIDE DEF c
<1>7. Asks(c, r)
  BY <1>6, RearmAfterFields, WaitsAsks
<1> HIDE DEF r
<1>8. Asks(page, page')
  BY <1>1, <1>2, <1>3, <1>5, <1>6, <1>7, AsksTransitive
<1>9. page' \in Pages /\ page'.due = <<>>
  BY <1>1, <1>8 DEF Asks
<1>10. Newest' /\ Fresh
  BY <1>2, <1>8, <1>9, NothingSent
<1>11. auto' \in Nat
  BY CountAutoNat DEF GetFails
<1>12. PageShapes'
  BY <1>2, <1>9, <1>11 DEF PageShapes
<1> QED BY <1>10, <1>12 DEF Good

LEMMA AnsweredGood ==
    ASSUME PageShapes, Newest, Free, NEW v \in verifies, VerifyAnswered(v) PROVE Good
<1>1. page \in Pages /\ page.due = <<>> /\ v \in Verifies /\ "success" \in Statuses
  BY DEF PageShapes, Free, Statuses, Legal
<1>2. /\ verifies' = verifies \ {v} /\ used' = used \cup {v.state} /\ begins' = begins
      /\ Refused(v) \/ Accepted(v)
  BY DEF VerifyAnswered
<1>3. Asks(page, page')
  <2>1. CASE Accepted(v)
    BY <1>1, <2>1, ToAsks DEF Accepted
  <2>2. CASE Refused(v)
    <3>1. PICK answer \in {"expired", "unknown", "typed", "uv_setup", "other"} :
              page' = After(answer, v.source, page)
      BY <2>2 DEF Refused
    <3>2. Waits(page, page')
      BY <1>1, <3>1, AfterFields
    <3> QED BY <1>1, <3>2, WaitsAsks
  <2> QED BY <1>2, <2>1, <2>2
<1>4. page' \in Pages /\ page'.due = <<>>
  BY <1>1, <1>3 DEF Asks
<1>5. (\A w \in verifies' : w.state <= begins) /\ (\A u \in used' : u <= begins)
  BY <1>2 DEF Newest
<1>6. Sent(begins)' => page'.spent
  BY <1>2, <1>3 DEF Newest, Sent, Asks
<1>7. Newest' /\ Fresh
  BY <1>2, <1>3, <1>4, <1>5, <1>6, WithinCeremony
<1>8. auto' \in Nat /\ v.state \in Nat
  BY <1>1, CountAutoNat DEF VerifyAnswered, Verifies
<1>9. PageShapes'
  BY <1>2, <1>4, <1>8 DEF PageShapes
<1> QED BY <1>7, <1>9 DEF Good

LEMMA NoCallersFields ==
    ASSUME NEW p \in Pages
    PROVE  LET q == [p EXCEPT !.callers = <<>>]
           IN  /\ q \in Pages /\ Calls(p, q)
               /\ q.state = p.state /\ q.spent = p.spent /\ q.aged = p.aged
               /\ q.rearms = p.rearms /\ q.due = p.due /\ q.callers = <<>>
               /\ q.calls = p.calls /\ q.gets = p.gets
<1> DEFINE none == <<>>
<1>1. none \in Seq(Callers)
  OBVIOUS
<1> HIDE DEF none
<1>2. LET q == [p EXCEPT !.callers = none]
      IN  /\ q \in Pages /\ Calls(p, q)
          /\ q.state = p.state /\ q.spent = p.spent /\ q.aged = p.aged
          /\ q.rearms = p.rearms /\ q.due = p.due /\ q.callers = none
          /\ q.calls = p.calls /\ q.gets = p.gets
  BY <1>1 DEF Pages, Calls
<1> QED BY <1>2 DEF none

LEMMA RebeginAnsweredGood ==
    ASSUME PageShapes, Newest, Free, RebeginAnswered PROVE Good
<1>1. /\ page \in Pages /\ page.due = <<>> /\ "failed" \in Statuses /\ begins \in Nat
      /\ UNCHANGED <<verifies, used, auto>>
  BY DEF PageShapes, Free, Statuses, Legal, RebeginAnswered, history
<1>2. CASE /\ begins' = begins + 1
           /\ page' = Adopt(begins + 1, [page EXCEPT !.due = page.callers, !.callers = <<>>])
  <2> DEFINE b == begins + 1
             d == [[page EXCEPT !.due = page.callers] EXCEPT !.callers = <<>>]
  <2>1. /\ d \in Pages /\ d.gets = page.gets /\ d.calls = page.calls
    BY <1>1 DEF Pages
  <2>2. d = [page EXCEPT !.due = page.callers, !.callers = <<>>] /\ b \in Nat
    BY <1>1
  <2> HIDE DEF d, b
  <2>3. LET q == Adopt(b, d)
        IN  /\ q \in Pages /\ q.gets = d.gets /\ q.calls = d.calls /\ q.state = b
            /\ ~ q.spent /\ ~ q.aged
    BY <2>1, <2>2 DEF Adopt, Pages
  <2>4. page' = Adopt(b, d)
    BY <1>2, <2>2 DEF b
  <2>5. /\ page' \in Pages /\ page'.gets = page.gets /\ page'.calls = page.calls
        /\ page'.state = begins' /\ ~ page'.spent /\ ~ page'.aged
    BY <1>2, <2>1, <2>3, <2>4 DEF b
  <2>6. PageShapes'
    BY <1>1, <1>2, <2>5 DEF PageShapes
  <2>7. /\ \A g \in page.gets : g.state <= begins + 1 /\ g.n <= page.calls
        /\ \A v \in verifies : v.state <= begins + 1 /\ v.state # begins + 1
        /\ \A s \in used : s <= begins + 1 /\ s # begins + 1
    <3>1. ASSUME NEW s \in Nat, s <= begins PROVE s <= begins + 1 /\ s # begins + 1
      BY <1>1, <3>1
    <3>2. \A g \in page.gets : g.state \in Nat
      BY <1>1 DEF Pages, Gets
    <3>3. \A v \in verifies : v.state \in Nat
      BY DEF PageShapes, Verifies
    <3> QED BY <3>1, <3>2, <3>3 DEF PageShapes, Newest
  <2>8. Newest'
    BY <1>1, <1>2, <2>5, <2>7 DEF Newest, Sent
  <2>9. ASSUME NEW g \in page'.gets PROVE ~ g.n > page.calls
    <3>1. g.n \in Nat /\ page.calls \in Nat /\ g.n <= page.calls
      BY <1>1, <2>5 DEF Newest, Pages, Gets
    <3> QED BY <3>1
  <2>10. Fresh
    BY <2>9 DEF Fresh
  <2> QED BY <2>6, <2>8, <2>10 DEF Good
<1>3. CASE UNCHANGED begins /\ page' = [Refuse(page) EXCEPT !.callers = <<>>]
  <2> DEFINE r == Refuse(page)
  <2>1. r = page \/ r = To("failed", page)
    BY DEF Refuse
  <2>2. Asks(page, r)
    <3>1. CASE r = page
      <4> HIDE DEF r
      <4> QED BY <1>1, <3>1, AsksNothing
    <3>2. CASE r = To("failed", page)
      <4> HIDE DEF r
      <4> QED BY <1>1, <3>2, ToAsks
    <3> QED BY <2>1, <3>1, <3>2
  <2>3. r \in Pages
    BY <2>2 DEF Asks
  <2>4. page' = [r EXCEPT !.callers = <<>>]
    BY <1>3
  <2> HIDE DEF r
  <2>5. /\ page' \in Pages /\ page'.state = r.state /\ page'.aged = r.aged /\ page'.due = r.due
        /\ page'.spent = r.spent /\ page'.calls = r.calls /\ page'.gets = r.gets
    BY <2>3, <2>4, NoCallersFields
  <2>6. Asks(r, page')
    BY <2>3, <2>5, AsksNothing
  <2>7. Asks(page, page')
    BY <1>1, <2>2, <2>6, AsksTransitive
  <2>8. page'.due = <<>>
    BY <1>1, <2>7 DEF Asks
  <2>9. Newest' /\ Fresh
    BY <1>1, <1>3, <2>7, <2>8, NothingSent
  <2>10. PageShapes'
    BY <1>1, <1>3, <2>5 DEF PageShapes
  <2> QED BY <2>9, <2>10 DEF Good
<1> QED BY <1>2, <1>3 DEF RebeginAnswered

LEMMA ReactGood ==
    ASSUME PageShapes, Newest, React PROVE Good
<1> DEFINE rest == Tail(page.due)
           c == Head(page.due)
           d == [page EXCEPT !.due = rest]
           r == Resume(d, c)
           t == Task(r)
<1>1. /\ page \in Pages /\ page.due # <<>> /\ page.due \in Seq(Callers)
      /\ ~ page.spent /\ ~ page.aged
  BY DEF PageShapes, Pages, React, Newest
<1>2. rest \in Seq(Callers) /\ c \in Callers
  BY <1>1
<1>3. page' = t /\ UNCHANGED <<verifies, begins, used, auto>>
  BY DEF React, server, history
<1> HIDE DEF rest, c
<1>4. /\ d \in Pages /\ d.state = page.state /\ d.aged = page.aged /\ d.spent = page.spent
      /\ d.calls = page.calls /\ d.gets = page.gets
  BY <1>1, <1>2 DEF Pages
<1> HIDE DEF d
<1>5. Asks(d, r) /\ r.spent = d.spent /\ r \in Pages
  BY <1>1, <1>2, <1>4, ResumeAsks DEF Asks
<1> HIDE DEF r
<1>6. Asks(r, t) /\ t.spent = r.spent
  BY <1>5, TaskAsks, TaskFields DEF Record
<1> HIDE DEF t
<1>7. Asks(d, page') /\ page'.spent = page.spent
  BY <1>3, <1>4, <1>5, <1>6, AsksTransitive
<1>8. /\ page' \in Pages /\ page'.calls \in Nat /\ page.calls \in Nat
      /\ page.calls <= page'.calls /\ begins \in Nat
  BY <1>1, <1>4, <1>7 DEF Asks, Pages, PageShapes
<1>9. ASSUME NEW g \in page'.gets
      PROVE  /\ g.state <= begins /\ g.n <= page'.calls
             /\ g.n > page.calls => g.state = begins
  <2>1. g.n \in Nat /\ g.state \in Nat
    BY <1>8 DEF Pages, Gets
  <2>2. CASE g \in page.gets
    BY <1>8, <2>1, <2>2 DEF Newest
  <2>3. CASE g \notin page.gets
    BY <1>4, <1>7, <1>8, <2>1, <2>3 DEF Newest, Asks
  <2> QED BY <2>2, <2>3
<1>10. page'.state = page.state /\ page'.aged = page.aged
  BY <1>4, <1>7 DEF Asks
<1>11. Newest'
  BY <1>1, <1>3, <1>7, <1>9, <1>10 DEF Newest, Sent
<1>12. ~ Sent(begins)
  BY <1>1 DEF Newest
<1>13. Fresh
  BY <1>1, <1>3, <1>9, <1>10, <1>12 DEF Fresh, Sent
<1>14. PageShapes'
  BY <1>3, <1>8 DEF PageShapes
<1> QED BY <1>11, <1>13, <1>14 DEF Good

LEMMA OthersGood ==
    ASSUME PageShapes, Newest, Free,
           SendPassword \/ CloseSetup \/ SetupAnswered \/ Age
    PROVE  Good
<1>1. /\ page \in Pages /\ page.due = <<>> /\ "restore" \in Callers /\ "failed" \in Statuses
  BY DEF PageShapes, Free, Callers, Statuses, Legal
<1>2. UNCHANGED <<verifies, begins, used>> /\ auto' \in Nat
  BY DEF SendPassword, CloseSetup, SetupAnswered, Age,
         server, history, Deed, PageShapes
<1>3. \/ page' = page
      \/ page' = Rebegin("restore", To("failed", page))
      \/ page' = [page EXCEPT !.aged = TRUE]
  BY DEF SendPassword, CloseSetup, SetupAnswered, Age
<1>4. CASE page' = [page EXCEPT !.aged = TRUE]
  <2>1. /\ page' \in Pages /\ Calls(page, page') /\ page'.state = page.state
        /\ page'.spent = page.spent /\ page'.due = page.due /\ page'.aged
    BY <1>1, <1>4 DEF Pages, Calls
  <2>2. Newest'
    BY <1>1, <1>2, <2>1 DEF Newest, Sent, Calls
  <2>3. ASSUME NEW g \in page'.gets PROVE ~ g.n > page.calls
    <3>1. g.n \in Nat /\ page.calls \in Nat /\ g.n <= page.calls
      BY <1>1, <2>1 DEF Newest, Pages, Gets, Calls
    <3> QED BY <3>1
  <2>4. Fresh
    BY <2>3 DEF Fresh
  <2>5. PageShapes'
    BY <1>2, <2>1 DEF PageShapes
  <2> QED BY <2>2, <2>4, <2>5 DEF Good
<1>5. CASE page' # [page EXCEPT !.aged = TRUE]
  <2>1. Asks(page, page')
    <3>1. CASE page' = page
      BY <1>1, <3>1, AsksNothing
    <3>2. CASE page' = Rebegin("restore", To("failed", page))
      <4> DEFINE t == To("failed", page)
      <4>1. Asks(page, t) /\ t \in Pages
        BY <1>1, ToAsks, ToFields DEF Record
      <4> HIDE DEF t
      <4>2. Asks(t, Rebegin("restore", t))
        BY <1>1, <4>1, RebeginAsks
      <4>3. page' = Rebegin("restore", t)
        BY <3>2 DEF t
      <4> QED BY <1>1, <4>1, <4>2, <4>3, AsksTransitive
    <3> QED BY <1>3, <1>5, <3>1, <3>2
  <2>2. page' \in Pages /\ page'.due = <<>>
    BY <1>1, <2>1 DEF Asks
  <2>3. Newest' /\ Fresh
    BY <1>2, <2>1, <2>2, NothingSent
  <2>4. PageShapes'
    BY <1>2, <2>2 DEF PageShapes
  <2> QED BY <2>3, <2>4 DEF Good
<1> QED BY <1>4, <1>5

LEMMA StutterGood ==
    ASSUME PageShapes, Newest, UNCHANGED pageVars PROVE Good
<1>1. UNCHANGED <<page, verifies, begins, used, auto>>
  BY DEF pageVars, server, history
<1>2. ASSUME NEW g \in page'.gets PROVE ~ g.n > page.calls
  <2>1. g.n \in Nat /\ page.calls \in Nat /\ g.n <= page.calls
    BY <1>1 DEF PageShapes, Newest, Pages, Gets
  <2> QED BY <2>1
<1>3. Fresh
  BY <1>2 DEF Fresh
<1>4. PageShapes' /\ Newest'
  BY <1>1 DEF PageShapes, Newest, Sent
<1> QED BY <1>3, <1>4 DEF Good

LEMMA NextGood ==
    ASSUME PageShapes, Newest, [PageNext]_pageVars PROVE Good
<1>1. CASE React
  BY <1>1, ReactGood
<1>2. CASE UNCHANGED pageVars
  BY <1>2, StutterGood
<1>3. CASE Free /\ Event
  <2>1. CASE Click
    BY <1>3, <2>1, ClickGood
  <2>2. CASE PickPasskey
    BY <1>3, <2>2, PickGood
  <2>3. CASE PageShow
    BY <1>3, <2>3, PageShowGood
  <2>4. CASE SendPassword \/ CloseSetup \/ SetupAnswered \/ Age
    BY <1>3, <2>4, OthersGood
  <2>5. CASE \E g \in page.gets : GetFails(g)
    BY <1>3, <2>5, GetFailsGood
  <2>6. CASE Answered
    BY <1>3, <2>6, AnsweredGood DEF Answered
  <2>7. CASE RebeginAnswered
    BY <1>3, <2>7, RebeginAnsweredGood
  <2> QED BY <1>3, <2>1, <2>2, <2>3, <2>4, <2>5, <2>6, <2>7 DEF Event
<1> QED BY <1>1, <1>2, <1>3 DEF PageNext

LEMMA BlankShape ==
    Blank \in Pages
<1> DEFINE none == <<>>
           b == [state |-> 1, spent |-> FALSE, aged |-> FALSE, rearms |-> 0, status |-> "idle",
                 held |-> 0, aborted |-> FALSE, busy |-> FALSE, callers |-> none, due |-> none,
                 gets |-> {}, calls |-> 0]
<1>1. none \in Seq(Callers) /\ "idle" \in Statuses
  BY DEF Statuses, Legal
<1>2. Blank = b
  BY DEF Blank
<1> HIDE DEF none
<1>3. b \in Pages
  BY <1>1 DEF Pages
<1> QED BY <1>2, <1>3

LEMMA InitNewest ==
    ASSUME PageInit PROVE PageShapes /\ Newest
<1>1. /\ page = StartConditional(Blank)
      /\ verifies = {} /\ begins = 1 /\ used = {} /\ auto = 0
  BY DEF PageInit
<1>2. Asks(Blank, page) /\ Record(Blank, page)
  BY <1>1, BlankShape, StartConditionalAsks, StartConditionalFields
<1>3. page \in Pages
  BY <1>2 DEF Record
<1>4. /\ page.state = 1 /\ page.due = <<>>
      /\ \A g \in page.gets : g.n <= page.calls /\ g.state = 1
  BY <1>2 DEF Blank, Asks, Record
<1> QED BY <1>1, <1>3, <1>4 DEF PageShapes, Newest, Sent

\* The user is asked for a gesture only on the newest ceremony, long enough
\* before it expires, and never on one that was sent to be verified.
THEOREM GesturesFresh == PageSpec => GestureIsFresh
<1>1. PageInit => PageShapes /\ Newest
  BY InitNewest
<1>2. PageShapes /\ Newest /\ [PageNext]_pageVars => (PageShapes /\ Newest)' /\ Fresh
  BY NextGood DEF Good
<1>3. Fresh => [\A g \in page'.gets : g.kind = "modal" /\ g.n > page.calls =>
                   /\ g.state = begins' /\ ~ page'.aged
                   /\ g.state \notin used \cup {v.state : v \in verifies}]_pageVars
  BY DEF Fresh
<1> QED BY <1>1, <1>2, <1>3, PTL DEF PageSpec, GestureIsFresh

-----------------------------------------------------------------------------
(* As long as the user never acts during an attempt, the page is tidy.     *)

\* One call at most, and the script knows which.
Empty(p) == p.gets = {} /\ ~ p.busy /\ p.held = 0
Holds(p) ==
    \/ Empty(p)
    \/ \E g \in Gets :
         /\ p.gets = {g}
         /\ g.state = p.state
         /\ \/ g.kind = "modal" /\ p.busy /\ p.held = 0
            \/ g.kind = "conditional" /\ ~ p.busy /\ p.held = g.n

\* An attempt is a call, a request to verify it, the dialog, or a re-begin.
OneAttempt ==
    /\ \A v, w \in verifies : v = w
    /\ verifies # {} => setup = "none"
    /\ verifies # {} \/ setup # "none" =>
         page.gets = {} /\ page.callers = <<>> /\ page.due = <<>> /\ page.spent
    /\ page.callers # <<>> =>
         page.gets = {} /\ page.due = <<>> /\ (page.spent \/ page.aged)

\* Only clicks join a re-begin.
OnlyClicks(callers) == \A i \in DOMAIN callers : i > 1 => callers[i] = "click"
Sharing ==
    /\ OnlyClicks(page.callers) /\ OnlyClicks(page.due)
    /\ page.due # <<>> /\ Head(page.due) # "click" => page.gets = {}

\* An automatic re-begin has nobody else on it, and is counted on the ceremony.
Alone(callers) == callers = <<>> \/ \E c \in Automatic : callers = <<c>>
Counted ==
    /\ auto <= 1
    /\ auto = 1 =>
         /\ verifies = {} /\ setup = "none"
         /\ Alone(page.callers) /\ Alone(page.due)
         /\ page.gets # {} => page.rearms >= 1

Tidy ==
    /\ Holds(page) /\ (page.aborted => page.due # <<>> /\ page.busy)
    /\ OneAttempt /\ Sharing /\ Counted

LEMMA OnlyClicksAppend ==
    ASSUME NEW s \in Seq(Callers), NEW c \in Callers, OnlyClicks(s), s # <<>> => c = "click"
    PROVE  OnlyClicks(Append(s, c)) /\ Append(s, c) # <<>>
  BY DEF OnlyClicks

LEMMA OneCaller ==
    ASSUME NEW c
    PROVE  /\ Append(<<>>, c) = <<c>> /\ <<c>> # <<>> /\ <<c>>[1] = c
           /\ OnlyClicks(<<c>>) /\ OnlyClicks(<<>>)
  BY DEF OnlyClicks

LEMMA OnlyClicksTail ==
    ASSUME NEW s \in Seq(Callers), OnlyClicks(s), s # <<>>
    PROVE  OnlyClicks(Tail(s)) /\ (Tail(s) # <<>> => Head(Tail(s)) = "click")
  BY DEF OnlyClicks

LEMMA AloneTail ==
    ASSUME NEW s, Alone(s), s # <<>>
    PROVE  Head(s) \in Automatic /\ Tail(s) = <<>>
<1> PICK c \in Automatic : s = <<c>>
  BY DEF Alone
<1> QED OBVIOUS

LEMMA AbortEmpties ==
    ASSUME NEW p \in Pages, Holds(p), ~ p.busy
    PROVE  Empty(AbortConditional(p))
  BY AbortFields DEF Holds, Empty, NotHeld

LEMMA EmptyNotHeld ==
    ASSUME NEW p, Empty(p) PROVE NotHeld(p) = {}
  BY DEF Empty, NotHeld

LEMMA SameHolds ==
    ASSUME NEW p, NEW q, Holds(p), q.gets = p.gets, q.state = p.state, q.held = p.held,
           q.busy = p.busy
    PROVE  Holds(q)
<1>1. CASE Empty(p)
  BY <1>1 DEF Holds, Empty
<1>2. CASE ~ Empty(p)
  <2> PICK g \in Gets :
         /\ p.gets = {g}
         /\ g.state = p.state
         /\ \/ g.kind = "modal" /\ p.busy /\ p.held = 0
            \/ g.kind = "conditional" /\ ~ p.busy /\ p.held = g.n
    BY <1>2 DEF Holds
  <2> QED BY DEF Holds
<1> QED BY <1>1, <1>2

LEMMA CallHolds ==
    ASSUME NEW q, NEW g \in Gets, q.gets = {g}, g.state = q.state,
           \/ g.kind = "modal" /\ q.busy /\ q.held = 0
           \/ g.kind = "conditional" /\ ~ q.busy /\ q.held = g.n
    PROVE  Holds(q)
  BY DEF Holds

LEMMA ProceedHolds ==
    ASSUME NEW p \in Pages, Holds(p)
    PROVE  LET q == Proceed(p)
           IN  Holds(q) /\ q.busy /\ q.held = 0 /\ q.gets # {}
<1> DEFINE q == Proceed(p)
<1>1. Record(p, q) /\ q.busy
  BY ProceedFields
<1>2. CASE p.busy
  <2>1. Calls(p, q)
    BY <1>2, ProceedFields
  <2>2. Holds(q)
    BY <1>1, <2>1, SameHolds DEF Calls, Record
  <2>3. p.held = 0 /\ p.gets # {}
    BY <1>2 DEF Holds, Empty
  <2> QED BY <1>1, <2>1, <2>2, <2>3 DEF Calls
<1>3. CASE ~ p.busy
  <2> DEFINE g == Call("modal", p)
  <2>1. NotHeld(p) = {}
    BY <1>3 DEF Holds, Empty, NotHeld
  <2>2. q.gets = {g} /\ q.held = 0
    BY <1>3, <2>1, ProceedFields
  <2>3. g \in Gets /\ g.kind = "modal" /\ g.state = p.state
    BY GetFields DEF Call, Kinds
  <2>4. q.state = p.state
    BY <1>1 DEF Record
  <2> HIDE DEF q, g
  <2>5. Holds(q)
    BY <1>1, <2>2, <2>3, <2>4, CallHolds
  <2> QED BY <1>1, <2>2, <2>5 DEF q
<1> QED BY <1>2, <1>3

LEMMA StartHolds ==
    ASSUME NEW p \in Pages, Empty(p), ~ p.aborted
    PROVE  LET q == StartConditional(p)
           IN  Holds(q) /\ ~ q.aborted
<1> DEFINE q == StartConditional(p)
<1>1. Record(p, q) /\ q.busy = p.busy
  BY StartConditionalFields
<1>2. CASE Calls(p, q)
  BY <1>1, <1>2, SameHolds DEF Calls, Record, Holds
<1>3. CASE /\ q.gets = NotHeld(p) \cup {Call("conditional", p)}
           /\ q.held = p.calls + 1
           /\ q.aborted <=> p.aborted \/ p.held # 0
  <2> DEFINE g == Call("conditional", p)
  <2>1. q.gets = {g} /\ ~ q.aborted /\ ~ q.busy
    BY <1>1, <1>3, EmptyNotHeld DEF Empty
  <2>2. g \in Gets /\ g.kind = "conditional" /\ g.state = p.state /\ g.n = p.calls + 1
    BY GetFields DEF Call, Kinds
  <2>3. q.state = p.state
    BY <1>1 DEF Record
  <2> HIDE DEF q, g
  <2>4. Holds(q)
    BY <1>3, <2>1, <2>2, <2>3, CallHolds
  <2> QED BY <2>1, <2>4 DEF q
<1> QED BY <1>2, <1>3, StartConditionalFields

LEMMA TaskHolds ==
    ASSUME NEW p \in Pages, Holds(p), p.aborted => p.held = 0
    PROVE  Holds(Task(p))
<1> DEFINE q == Task(p)
<1>1. q.gets = p.gets /\ q.busy = p.busy /\ q.held = p.held /\ q.state = p.state
  BY TaskFields DEF Record
<1> HIDE DEF q
<1>2. Holds(q)
  BY <1>1, SameHolds
<1> QED BY <1>2 DEF q

\* The button does nothing while a dialog is open; whatever conditional call is
\* open it takes back first.
LEMMA ClickTidy ==
    ASSUME PageShapes, Newest, Tidy, Free, Click, verifies = {}, setup = "none"
    PROVE  Tidy'
<1> DEFINE a == AbortConditional(page)
           m == ModalGet(a)
           t == Task(m)
<1>1. /\ page \in Pages /\ page.due = <<>> /\ ~ page.busy /\ ~ page.aborted
      /\ page.callers \in Seq(Callers)
  BY DEF PageShapes, Free, Click, Tidy, Pages
<1>2. page' = t /\ UNCHANGED <<verifies, setup>> /\ auto' = 0
  BY DEF Click, Deed, a, m
<1>3. Empty(a) /\ Record(page, a)
  BY <1>1, AbortEmpties, AbortFields DEF Tidy
<1>4. a \in Pages
  BY <1>3 DEF Record
<1> HIDE DEF a
<1>5. /\ m \in Pages /\ Holds(m) /\ m.held = 0 /\ m.due = <<>>
      /\ \/ m.callers = <<>>
         \/ m.gets = {} /\ (m.spent \/ m.aged) /\ OnlyClicks(m.callers)
  <2>1. CASE NeedsPreModalRebegin(a)
    <3>1. m = Rebegin("click", a) /\ "click" \in Callers
      BY <2>1 DEF ModalGet, Callers
    <3> HIDE DEF m
    <3>2. /\ m \in Pages /\ Calls(a, m) /\ m.spent = a.spent /\ m.aged = a.aged /\ m.due = a.due
          /\ m.callers = Append(a.callers, "click")
      BY <1>4, <3>1, RebeginFields
    <3>3. OnlyClicks(m.callers)
      <4>1. a.callers = page.callers /\ OnlyClicks(page.callers)
        BY <1>3 DEF Tidy, Sharing, Record
      <4>2. OnlyClicks(Append(page.callers, "click"))
        BY <1>1, <3>1, <4>1, OnlyClicksAppend
      <4>3. m.callers = Append(page.callers, "click")
        BY <3>2, <4>1
      <4> QED BY <4>2, <4>3
    <3>4. Empty(m) /\ m.due = <<>> /\ (m.spent \/ m.aged)
      BY <1>1, <1>3, <2>1, <3>2 DEF Empty, Calls, Record, NeedsPreModalRebegin
    <3> QED BY <3>2, <3>3, <3>4 DEF Holds, Empty
  <2>2. CASE ~ NeedsPreModalRebegin(a)
    <3>1. m = Proceed(a) /\ ~ a.spent /\ ~ a.aged
      BY <2>2 DEF ModalGet, NeedsPreModalRebegin
    <3> HIDE DEF m
    <3>2. Record(a, m) /\ Holds(m) /\ m.held = 0
      BY <1>3, <1>4, <3>1, ProceedFields, ProceedHolds DEF Holds
    <3>3. page.callers = <<>>
      BY <1>3, <3>1 DEF Tidy, OneAttempt, Record
    <3> QED BY <1>1, <1>3, <3>2, <3>3 DEF Record
  <2> QED BY <2>1, <2>2
<1> HIDE DEF m
<1>6. /\ Record(m, t) /\ t.gets = m.gets /\ ~ t.aborted /\ Holds(t)
  BY <1>5, TaskFields, TaskHolds
<1> HIDE DEF t
<1>7. Holds(page)' /\ ~ page'.aborted
  BY <1>2, <1>6 DEF Holds, Empty
<1>8. /\ page'.due = <<>>
      /\ \/ page'.callers = <<>>
         \/ page'.gets = {} /\ (page'.spent \/ page'.aged) /\ OnlyClicks(page'.callers)
  BY <1>2, <1>5, <1>6 DEF Record
<1>9. OneAttempt'
  BY <1>2, <1>8 DEF OneAttempt
<1>10. Sharing'
  BY <1>8, OneCaller DEF Sharing
<1>11. Counted'
  BY <1>2 DEF Counted
<1> QED BY <1>7, <1>9, <1>10, <1>11 DEF Tidy

\* What is left of an unanswered call, once it settles, is a page at rest.
LEMMA SettledEmpty ==
    ASSUME PageShapes, Tidy, Free, NEW g \in page.gets
    PROVE  /\ Empty(SettledGet(g)) /\ Record(page, SettledGet(g)) /\ ~ SettledGet(g).aborted
           /\ g.state = page.state /\ verifies = {} /\ setup = "none" /\ page.callers = <<>>
<1> DEFINE s == SettledGet(g)
<1>1. page \in Pages
  BY DEF PageShapes
<1>2. /\ Record(page, s) /\ s.gets = page.gets \ {g} /\ s.aborted = page.aborted
      /\ g.kind = "modal" => ~ s.busy /\ s.held = page.held
      /\ g.kind # "modal" => s.busy = page.busy /\ s.held = 0
  BY <1>1, SettledFields
<1> HIDE DEF s
<1>3. PICK h \in Gets :
        /\ page.gets = {h}
        /\ h.state = page.state
        /\ \/ h.kind = "modal" /\ page.busy /\ page.held = 0
           \/ h.kind = "conditional" /\ ~ page.busy /\ page.held = h.n
  BY DEF Tidy, Holds, Empty
<1>4. g = h
  BY <1>3
<1>5. verifies = {} /\ setup = "none" /\ page.callers = <<>>
  BY DEF Tidy, OneAttempt
<1>6. Empty(s)
  BY <1>2, <1>3, <1>4 DEF Empty
<1>7. ~ page.aborted
  BY DEF Tidy, Free
<1> QED BY <1>2, <1>3, <1>4, <1>5, <1>6, <1>7 DEF s

\* A page on which at most a request is under way, or a re-begin.
LEMMA RestTidy ==
    ASSUME Empty(page'), ~ page'.aborted, page'.due = <<>>, verifies' = {}, setup' = "none",
           page'.callers # <<>> => page'.spent \/ page'.aged, OnlyClicks(page'.callers), auto' <= 1,
           auto' = 1 => Alone(page'.callers)
    PROVE  Tidy'
<1>1. Holds(page)' /\ page'.gets = {}
  BY DEF Holds, Empty
<1>2. OneAttempt'
  BY <1>1 DEF OneAttempt
<1>3. Sharing'
  BY OneCaller DEF Sharing
<1>4. Counted'
  BY <1>1 DEF Counted, Alone
<1> QED BY <1>1, <1>2, <1>3, <1>4 DEF Tidy

LEMMA PickTidy ==
    ASSUME PageShapes, Newest, Tidy, Free, PickPasskey
    PROVE  Tidy'
<1> PICK g \in page.gets :
      /\ Deed /\ RunVerify(g, SettledGet(g))
      /\ UNCHANGED <<autofill, setup, server, overtaken, silent>>
  BY DEF PickPasskey
<1> DEFINE v == [n |-> g.n, state |-> g.state, source |-> g.kind]
           s == SettledGet(g)
           m == MarkSpent(g.state, s)
           t == To("verifying", m)
<1>1. /\ Empty(s) /\ Record(page, s) /\ ~ s.aborted /\ s.state = g.state
      /\ verifies = {} /\ setup = "none" /\ page.callers = <<>> /\ page.due = <<>>
      /\ "verifying" \in Statuses
  BY SettledEmpty DEF Free, Statuses, Legal, Record
<1>2. page' = t /\ verifies' = {v} /\ setup' = "none" /\ auto' = 0
  BY <1>1 DEF RunVerify, Deed
<1>3. s \in Pages
  BY <1>1 DEF Record
<1> HIDE DEF s
<1>4. /\ m \in Pages /\ Calls(s, m) /\ m.callers = s.callers /\ m.due = s.due /\ m.spent
  BY <1>1, <1>3, MarkSpentFields
<1> HIDE DEF m
<1>5. Record(m, t) /\ Calls(m, t)
  BY <1>1, <1>4, ToFields
<1> HIDE DEF t, v
<1>6. /\ Empty(page') /\ ~ page'.aborted /\ page'.spent
      /\ page'.callers = <<>> /\ page'.due = <<>>
  BY <1>1, <1>2, <1>4, <1>5 DEF Empty, Calls, Record
<1>7. Holds(page)' /\ page'.gets = {}
  BY <1>6 DEF Holds, Empty
<1>8. OneAttempt'
  BY <1>2, <1>6, <1>7 DEF OneAttempt
<1>9. Sharing'
  BY <1>6, OneCaller DEF Sharing
<1>10. Counted'
  BY <1>2 DEF Counted
<1> QED BY <1>6, <1>7, <1>8, <1>9, <1>10 DEF Tidy

LEMMA PageShowTidy ==
    ASSUME PageShapes, Newest, Tidy, Free, PageShow, ~ Underway
    PROVE  Tidy'
<1> DEFINE a == AbortConditional(page)
           b == [a EXCEPT !.busy = FALSE]
           m == MarkSpent(page.state, b)
           r == Rebegin("restore", m)
           t == Task(r)
<1>1. /\ page \in Pages /\ page.due = <<>> /\ "restore" \in Callers
      /\ Empty(page) /\ ~ page.aborted /\ page.callers = <<>> /\ verifies = {} /\ setup = "none"
  BY DEF PageShapes, Free, Callers, Underway, Tidy, Holds, Empty
<1>2. page' = t /\ UNCHANGED <<verifies, setup>> /\ auto' = 0
  BY DEF PageShow, Deed
<1>3. Record(page, a) /\ a.gets = {} /\ a.held = 0 /\ ~ a.aborted
  BY <1>1, AbortFields DEF Empty, NotHeld
<1>4. a \in Pages
  BY <1>3 DEF Record
<1> HIDE DEF a
<1>5. /\ b \in Pages /\ b.state = a.state /\ b.due = a.due /\ b.callers = a.callers
      /\ b.gets = a.gets /\ b.held = a.held /\ ~ b.busy /\ b.aborted = a.aborted
  BY <1>4 DEF Pages
<1> HIDE DEF b
<1>6. /\ m \in Pages /\ Calls(b, m) /\ m.callers = b.callers /\ m.due = b.due /\ m.spent
  BY <1>3, <1>5, MarkSpentFields DEF Record
<1> HIDE DEF m
<1>7. /\ r \in Pages /\ Calls(m, r) /\ r.callers = Append(m.callers, "restore")
      /\ r.due = m.due /\ r.spent
  BY <1>1, <1>6, RebeginFields
<1> HIDE DEF r
<1>8. /\ Record(r, t) /\ t.gets = r.gets /\ t.busy = r.busy
      /\ (r.held = 0 => t.held = 0) /\ (t.aborted => r.aborted)
  BY <1>7, TaskFields
<1> HIDE DEF t
<1>9. /\ Empty(page') /\ ~ page'.aborted /\ page'.due = <<>> /\ page'.spent
  BY <1>1, <1>2, <1>3, <1>5, <1>6, <1>7, <1>8 DEF Empty, Calls, Record
<1>10. page'.callers = <<"restore">>
  BY <1>1, <1>2, <1>3, <1>5, <1>6, <1>7, <1>8, OneCaller DEF Record
<1> QED BY <1>1, <1>2, <1>9, <1>10, OneCaller, RestTidy

\* What the page re-begins by itself it counts, when nothing was counted yet.
LEMMA AutoCounts ==
    ASSUME PageShapes, CountAuto, page.callers = <<>>, auto <= 1,
           \/ page'.callers = <<>>
           \/ auto # 1 /\ \E c \in Automatic : page'.callers = <<c>>
    PROVE  auto' <= 1 /\ Alone(page'.callers) /\ OnlyClicks(page'.callers)
<1>1. auto \in Nat
  BY DEF PageShapes
<1>2. CASE page'.callers = <<>>
  BY <1>2, OneCaller DEF CountAuto, Alone
<1>3. CASE page'.callers # <<>>
  <2>1. PICK c \in Automatic : page'.callers = <<c>>
    BY <1>3
  <2>2. auto = 0 /\ auto' \in {0, 1}
    BY <1>1, <1>3 DEF CountAuto
  <2> QED BY <2>1, <2>2, OneCaller DEF Alone
<1> QED BY <1>2, <1>3

LEMMA GetFailsTidy ==
    ASSUME PageShapes, Newest, Tidy, Free, NEW g \in page.gets, GetFails(g)
    PROVE  Tidy'
<1> DEFINE s == SettledGet(g)
           m == MarkSpent(g.state, s)
           r == RearmAfterVisibleFailure(To("cancelled", m))
<1>1. /\ Empty(s) /\ Record(page, s) /\ ~ s.aborted /\ s.state = g.state
      /\ verifies = {} /\ setup = "none" /\ page.callers = <<>> /\ page.due = <<>>
      /\ "cancelled" \in Statuses
  BY SettledEmpty DEF Free, Statuses, Legal, Record
<1>2. (page' = m \/ page' = r) /\ UNCHANGED <<verifies, setup>> /\ CountAuto
  BY DEF GetFails
<1>3. s \in Pages
  BY <1>1 DEF Record
<1> HIDE DEF s
<1>4. /\ m \in Pages /\ Calls(s, m) /\ m.callers = s.callers /\ m.due = s.due /\ m.spent
      /\ m.rearms = s.rearms
  BY <1>1, <1>3, MarkSpentFields
<1> HIDE DEF m
<1>5. /\ Waits(m, r)
      /\ \/ r.callers = m.callers
         \/ m.rearms < 1 /\ r.callers = Append(m.callers, "rearm")
  BY <1>1, <1>4, FailsFields
<1> HIDE DEF r
<1>6. Waits(m, page')
  BY <1>2, <1>4, <1>5 DEF Waits, Calls
<1>7. Empty(page') /\ ~ page'.aborted /\ page'.spent /\ page'.due = <<>>
  BY <1>1, <1>4, <1>6 DEF Empty, Calls, Record, Waits
<1>8. \/ page'.callers = <<>>
      \/ page.rearms < 1 /\ page'.callers = <<"rearm">>
  BY <1>1, <1>2, <1>4, <1>5, OneCaller DEF Record
<1>9. auto <= 1 /\ (auto = 1 => page.rearms >= 1) /\ page.rearms \in Nat
  BY DEF Tidy, Counted, PageShapes, Pages
<1>10. \/ page'.callers = <<>>
       \/ auto # 1 /\ \E c \in Automatic : page'.callers = <<c>>
  BY <1>8, <1>9 DEF Automatic
<1>11. auto' <= 1 /\ Alone(page'.callers) /\ OnlyClicks(page'.callers)
  BY <1>1, <1>2, <1>9, <1>10, AutoCounts
<1> QED BY <1>1, <1>2, <1>7, <1>11, RestTidy

LEMMA AnsweredTidy ==
    ASSUME PageShapes, Newest, Tidy, Free, NEW v \in verifies, VerifyAnswered(v)
    PROVE  Tidy'
<1>1. /\ page \in Pages /\ page.due = <<>> /\ "success" \in Statuses
      /\ page.gets = {} /\ page.callers = <<>> /\ page.spent /\ setup = "none"
      /\ verifies = {v} /\ auto <= 1 /\ auto # 1 /\ ~ page.aborted
  BY DEF PageShapes, Free, Statuses, Legal, Tidy, OneAttempt, Counted
<1>2. Empty(page)
  BY <1>1 DEF Tidy, Holds, Empty
<1>3. verifies' = {} /\ CountAuto /\ (Refused(v) \/ Accepted(v))
  BY <1>1 DEF VerifyAnswered
<1>4. /\ Waits(page, page')
      /\ \/ page'.callers = page.callers
         \/ \E c \in Automatic : page'.callers = Append(page.callers, c)
      /\ setup' # "none" => page'.callers = <<>>
  <2>1. CASE Accepted(v)
    <3>1. page' = To("success", page) /\ setup' = setup
      BY <2>1 DEF Accepted
    <3>2. Record(page, page') /\ Calls(page, page')
      BY <1>1, <3>1, ToFields
    <3> QED BY <1>1, <3>1, <3>2 DEF Record, Waits
  <2>2. CASE Refused(v)
    <3>1. PICK answer \in {"expired", "unknown", "typed", "uv_setup", "other"} :
              /\ page' = After(answer, v.source, page)
              /\ setup' = IF answer = "uv_setup" THEN "open" ELSE setup
      BY <2>2 DEF Refused
    <3>2. /\ Waits(page, page')
          /\ \/ page'.callers = page.callers
             \/ \E c \in Automatic : page'.callers = Append(page.callers, c)
      BY <1>1, <3>1, AfterFields
    <3>3. ASSUME setup' # "none" PROVE page'.callers = <<>>
      <4>1. answer = "uv_setup" /\ "idle" \in Statuses
        BY <1>1, <3>1, <3>3 DEF Statuses, Legal
      <4>2. page' = To("idle", page)
        BY <3>1, <4>1 DEF After
      <4> QED BY <1>1, <4>1, <4>2, ToFields DEF Record
    <3> QED BY <3>2, <3>3
  <2> QED BY <1>3, <2>1, <2>2
<1>5. /\ Empty(page') /\ ~ page'.aborted /\ page'.due = <<>> /\ page'.spent
  BY <1>1, <1>2, <1>4 DEF Empty, Waits, Calls
<1>6. \/ page'.callers = <<>>
      \/ auto # 1 /\ \E c \in Automatic : page'.callers = <<c>>
  BY <1>1, <1>4, OneCaller
<1>7. auto' <= 1 /\ Alone(page'.callers) /\ OnlyClicks(page'.callers)
  BY <1>1, <1>3, <1>6, AutoCounts
<1>8. CASE setup' = "none"
  BY <1>3, <1>5, <1>7, <1>8, RestTidy
<1>9. CASE setup' # "none"
  <2>1. page'.callers = <<>> /\ auto' = auto
    BY <1>3, <1>4, <1>9 DEF CountAuto
  <2>2. Holds(page)' /\ page'.gets = {}
    BY <1>5 DEF Holds, Empty
  <2>3. OneAttempt'
    BY <1>3, <1>5, <2>1, <2>2 DEF OneAttempt
  <2>4. Sharing'
    BY <1>5, <2>1, OneCaller DEF Sharing
  <2>5. Counted'
    BY <1>1, <2>1 DEF Counted
  <2> QED BY <1>5, <2>2, <2>3, <2>4, <2>5 DEF Tidy
<1> QED BY <1>8, <1>9

LEMMA RebeginAnsweredTidy ==
    ASSUME PageShapes, Newest, Tidy, Free, RebeginAnswered
    PROVE  Tidy'
<1>1. /\ page \in Pages /\ page.due = <<>> /\ "failed" \in Statuses /\ begins \in Nat
      /\ UNCHANGED <<verifies, setup, auto>>
  BY DEF PageShapes, Free, Statuses, Legal, RebeginAnswered, history
<1>2. /\ page.callers # <<>> /\ page.gets = {} /\ verifies = {} /\ setup = "none" /\ ~ page.aborted
  BY <1>1 DEF RebeginAnswered, Tidy, OneAttempt
<1>3. Empty(page)
  BY <1>2 DEF Tidy, Holds, Empty
<1>4. /\ OnlyClicks(page.callers) /\ auto <= 1
      /\ auto = 1 => Alone(page.callers)
  BY DEF Tidy, Sharing, Counted
<1>5. CASE /\ begins' = begins + 1
           /\ page' = Adopt(begins + 1, [page EXCEPT !.due = page.callers, !.callers = <<>>])
  <2> DEFINE none == <<>>
             b == begins + 1
             c == page.callers
             d == [[page EXCEPT !.due = c] EXCEPT !.callers = none]
  <2>1. /\ d = [page EXCEPT !.due = page.callers, !.callers = <<>>] /\ b \in Nat
        /\ none \in Seq(Callers) /\ c \in Seq(Callers)
    BY <1>1 DEF Pages
  <2> HIDE DEF c, none
  <2>2. /\ d \in Pages /\ Calls(page, d) /\ d.due = c /\ d.callers = none
    BY <1>1, <2>1 DEF Pages, Calls
  <2> HIDE DEF d, b
  <2>3. LET q == Adopt(b, d)
        IN  /\ q \in Pages /\ Calls(d, q) /\ q.due = d.due /\ q.callers = d.callers
    BY <2>1, <2>2 DEF Adopt, Pages, Calls
  <2>4. page' = Adopt(b, d)
    BY <1>5, <2>1 DEF b
  <2>5. /\ Empty(page') /\ ~ page'.aborted
    BY <1>2, <1>3, <2>2, <2>3, <2>4 DEF Empty, Calls
  <2>6. page'.due = page.callers /\ page'.callers = <<>>
    BY <2>2, <2>3, <2>4 DEF c, none
  <2>7. Holds(page)' /\ page'.gets = {}
    BY <2>5 DEF Holds, Empty
  <2>8. OneAttempt'
    BY <1>1, <1>2, <2>6, <2>7 DEF OneAttempt
  <2>9. Sharing'
    BY <1>4, <2>6, <2>7, OneCaller DEF Sharing
  <2>10. Counted'
    BY <1>1, <1>2, <1>4, <2>6, <2>7 DEF Counted, Alone
  <2> QED BY <2>5, <2>7, <2>8, <2>9, <2>10 DEF Tidy
<1>6. CASE page' = [Refuse(page) EXCEPT !.callers = <<>>]
  <2> DEFINE r == Refuse(page)
  <2>1. r = page \/ r = To("failed", page)
    BY DEF Refuse
  <2>2. r \in Pages /\ Calls(page, r) /\ r.due = page.due
    BY <1>1, <2>1, ToFields DEF Record, Calls
  <2> HIDE DEF r
  <2>3. page' = [r EXCEPT !.callers = <<>>]
    BY <1>6 DEF r
  <2>4. Calls(r, page') /\ page'.due = r.due /\ page'.callers = <<>>
    BY <2>2, <2>3, NoCallersFields
  <2>5. Empty(page') /\ ~ page'.aborted /\ page'.due = <<>>
    BY <1>1, <1>2, <1>3, <2>2, <2>4 DEF Empty, Calls
  <2> QED BY <1>1, <1>2, <1>4, <2>4, <2>5, OneCaller, RestTidy DEF Alone
<1> QED BY <1>5, <1>6 DEF RebeginAnswered

LEMMA OthersTidy ==
    ASSUME PageShapes, Newest, Tidy, Free,
           SendPassword \/ CloseSetup \/ SetupAnswered \/ Age
    PROVE  Tidy'
<1>1. /\ page \in Pages /\ page.due = <<>> /\ ~ page.aborted /\ verifies' = verifies
  BY DEF PageShapes, Free, Tidy, SendPassword, CloseSetup,
         SetupAnswered, Age
<1>2. CASE Age
  <2>1. UNCHANGED <<setup, auto>> /\ page' = [page EXCEPT !.aged = TRUE]
    BY <1>2 DEF Age, history
  <2>2. /\ Calls(page, page') /\ page'.state = page.state /\ page'.spent = page.spent /\ page'.aged
        /\ page'.rearms = page.rearms /\ page'.due = page.due /\ page'.callers = page.callers
    BY <1>1, <2>1 DEF Pages, Calls
  <2>3. Holds(page)'
    <3> DEFINE q == page'
    <3>1. /\ Holds(page) /\ q.gets = page.gets /\ q.state = page.state
          /\ q.held = page.held /\ q.busy = page.busy
      BY <2>2 DEF Tidy, Calls
    <3> HIDE DEF q
    <3>2. Holds(q)
      BY <3>1, SameHolds
    <3> QED BY <3>2 DEF q, Holds, Empty
  <2>4. OneAttempt' /\ Sharing' /\ Counted'
    BY <1>1, <2>1, <2>2 DEF Tidy, OneAttempt, Sharing, Counted, Calls
  <2> QED BY <1>1, <2>2, <2>3, <2>4 DEF Tidy, Calls
<1>3. CASE ~ Age
  <2>1. /\ setup # "none" /\ (auto' = 0 \/ auto' = auto)
        /\ \/ page' = page
           \/ setup' = "none" /\ page' = Rebegin("restore", To("failed", page))
    BY <1>3 DEF SendPassword, CloseSetup, SetupAnswered, Deed, history
  <2>2. /\ verifies = {} /\ page.gets = {} /\ page.callers = <<>> /\ page.spent
        /\ auto' <= 1 /\ auto' # 1
    BY <2>1 DEF Tidy, OneAttempt, Counted
  <2>3. Empty(page)
    BY <2>2 DEF Tidy, Holds, Empty
  <2>4. CASE page' = page
    <3>1. Holds(page)'
      BY <2>4 DEF Tidy, Holds, Empty
    <3>2. OneAttempt' /\ Sharing' /\ Counted'
      BY <1>1, <2>2, <2>4 DEF Tidy, OneAttempt, Sharing, Counted
    <3> QED BY <1>1, <2>4, <3>1, <3>2 DEF Tidy
  <2>5. CASE setup' = "none" /\ page' = Rebegin("restore", To("failed", page))
    <3> DEFINE t == To("failed", page)
    <3>1. "restore" \in Callers /\ "failed" \in Statuses
      BY DEF Callers, Statuses, Legal
    <3>2. t \in Pages /\ Record(page, t) /\ Calls(page, t)
      BY <1>1, <3>1, ToFields DEF Record
    <3>3. page' = Rebegin("restore", t)
      BY <2>5
    <3> HIDE DEF t
    <3>4. /\ Calls(t, page') /\ page'.due = t.due /\ page'.spent = t.spent
          /\ page'.callers = Append(t.callers, "restore")
      BY <3>1, <3>2, <3>3, RebeginFields
    <3>5. /\ Empty(page') /\ ~ page'.aborted /\ page'.due = <<>> /\ page'.spent
          /\ page'.callers = <<"restore">>
      BY <1>1, <2>2, <2>3, <3>2, <3>4, OneCaller DEF Empty, Calls, Record
    <3> QED BY <1>1, <2>2, <2>5, <3>5, OneCaller, RestTidy
  <2> QED BY <2>1, <2>4, <2>5
<1> QED BY <1>2, <1>3

\* Between the answer and the last reaction nothing but reactions happens.
LEMMA ReactTidy ==
    ASSUME PageShapes, Newest, Tidy, React
    PROVE  Tidy'
<1> DEFINE rest == Tail(page.due)
           c == Head(page.due)
           d == [page EXCEPT !.due = rest]
           r == Resume(d, c)
           t == Task(r)
           k == MarkRearm(d)
<1>1. /\ page \in Pages /\ page.due # <<>> /\ page.due \in Seq(Callers)
      /\ ~ page.spent /\ ~ page.aged /\ page.rearms \in Nat
      /\ verifies = {} /\ setup = "none" /\ page.callers = <<>>
  BY DEF PageShapes, Pages, React, Newest, Tidy, OneAttempt
<1>2. /\ rest \in Seq(Callers) /\ c \in Callers
      /\ OnlyClicks(rest) /\ (rest # <<>> => Head(rest) = "click")
      /\ c # "click" => page.gets = {}
      /\ auto = 1 => c \in Automatic /\ rest = <<>>
  BY <1>1, OnlyClicksTail, AloneTail DEF Tidy, Sharing, Counted
<1>3. page' = t /\ UNCHANGED <<verifies, setup, auto>>
  BY DEF React, history
<1> HIDE DEF rest, c
<1>4. /\ d \in Pages /\ Calls(page, d) /\ d.state = page.state /\ d.aged = page.aged
      /\ d.spent = page.spent /\ d.rearms = page.rearms /\ d.callers = page.callers /\ d.due = rest
  BY <1>1, <1>2 DEF Pages, Calls
<1>5. Holds(d) /\ (d.aborted => d.busy) /\ (c # "click" => Empty(d) /\ ~ d.aborted)
  <2>1. Holds(d)
    BY <1>4, SameHolds DEF Tidy, Calls
  <2>2. d.aborted => d.busy
    BY <1>4 DEF Tidy, Calls
  <2>3. d.gets = {} => Empty(d)
    BY <2>1 DEF Holds, Empty
  <2> QED BY <1>2, <1>4, <2>1, <2>2, <2>3 DEF Empty, Calls
<1> HIDE DEF d
<1>6. /\ k \in Pages /\ Calls(d, k) /\ k.rearms = d.rearms + 1 /\ k.callers = d.callers
      /\ k.due = d.due /\ k.spent = d.spent /\ k.aged = d.aged
      /\ c # "click" => Empty(k) /\ ~ k.aborted
  BY <1>4, <1>5, MarkRearmFields DEF Calls, Empty
<1> HIDE DEF k
<1>7. /\ r \in Pages /\ Holds(r) /\ (r.aborted => r.busy /\ r.held = 0)
      /\ r.callers = <<>> /\ r.due = rest
      /\ auto = 1 => r.rearms >= 1
  <2>1. CASE c = "click"
    <3>1. r = Proceed(d)
      BY <2>1 DEF Resume
    <3>2. Record(d, r) /\ Holds(r) /\ r.busy /\ r.held = 0
      BY <1>4, <1>5, <3>1, ProceedFields, ProceedHolds
    <3>3. auto # 1
      BY <1>2, <2>1 DEF Automatic
    <3> QED BY <1>1, <1>4, <3>2, <3>3 DEF Record
  <2>2. CASE c = "restore"
    <3>1. r = StartConditional(d)
      BY <2>2 DEF Resume
    <3>2. Record(d, r) /\ Holds(r) /\ ~ r.aborted
      BY <1>4, <1>5, <2>2, <3>1, StartConditionalFields, StartHolds
    <3>3. auto # 1
      BY <1>2, <2>2 DEF Automatic
    <3> QED BY <1>1, <1>4, <3>2, <3>3 DEF Record
  <2>3. CASE c = "expired_modal"
    <3>1. r = Proceed(k)
      BY <1>1, <1>4, <1>6, <2>3 DEF Resume, ModalGet, NeedsPreModalRebegin, k
    <3>2. Record(k, r) /\ Holds(r) /\ r.busy /\ r.held = 0
      BY <1>6, <2>3, <3>1, ProceedFields, ProceedHolds DEF Holds
    <3>3. r.rearms >= 1
      BY <1>1, <1>4, <1>6, <3>2 DEF Record
    <3> QED BY <1>1, <1>4, <1>6, <3>2, <3>3 DEF Record
  <2>4. CASE c \notin {"click", "restore", "expired_modal"}
    <3>1. r = StartConditional(k)
      BY <2>4 DEF Resume, k
    <3>2. Record(k, r) /\ Holds(r) /\ ~ r.aborted
      BY <1>6, <2>4, <3>1, StartConditionalFields, StartHolds
    <3>3. r.rearms >= 1
      BY <1>1, <1>4, <1>6, <3>2 DEF Record
    <3> QED BY <1>1, <1>4, <1>6, <3>2, <3>3 DEF Record
  <2> QED BY <2>1, <2>2, <2>3, <2>4
<1> HIDE DEF r
<1>8. /\ Record(r, t) /\ t.gets = r.gets /\ t.busy = r.busy
      /\ t.aborted <=> r.aborted /\ r.due # <<>>
      /\ Holds(t)
  BY <1>7, TaskFields, TaskHolds
<1> HIDE DEF t
<1>9. Holds(page)' /\ (page'.aborted => page'.due # <<>> /\ page'.busy)
  BY <1>3, <1>7, <1>8 DEF Holds, Empty, Record
<1>10. /\ page'.callers = <<>> /\ page'.due = rest
       /\ auto = 1 => page'.rearms >= 1
  BY <1>3, <1>7, <1>8 DEF Record
<1>11. OneAttempt'
  BY <1>1, <1>3, <1>10 DEF OneAttempt
<1>12. Sharing'
  BY <1>2, <1>10, OneCaller DEF Sharing
<1>13. Counted'
  BY <1>1, <1>2, <1>3, <1>10 DEF Counted, Tidy, Alone
<1> QED BY <1>9, <1>11, <1>12, <1>13 DEF Tidy

LEMMA StutterTidy ==
    ASSUME Tidy, UNCHANGED pageVars PROVE Tidy'
<1>1. UNCHANGED <<page, verifies, setup, auto>>
  BY DEF pageVars, history
<1> QED BY <1>1 DEF Tidy, Holds, Empty, OneAttempt, Sharing, Counted

\* The user never acted during an attempt.
Calm == ~ overtaken => Tidy

LEMMA NextCalm ==
    ASSUME PageShapes, Newest, Calm, [PageNext]_pageVars PROVE Calm'
<1> SUFFICES ASSUME ~ overtaken' PROVE Tidy'
  BY DEF Calm
<1>1. CASE UNCHANGED pageVars
  BY <1>1, StutterTidy DEF Calm, pageVars, history
<1>2. CASE React
  <2>1. ~ overtaken
    BY <1>2 DEF React, history
  <2> QED BY <1>2, <2>1, ReactTidy DEF Calm
<1>3. CASE Free /\ Event
  <2>1. CASE Click
    <3>1. ~ overtaken /\ verifies = {} /\ setup = "none"
      BY <2>1 DEF Click
    <3> QED BY <1>3, <2>1, <3>1, ClickTidy DEF Calm
  <2>2. CASE PickPasskey
    <3>1. ~ overtaken
      BY <2>2 DEF PickPasskey
    <3> QED BY <1>3, <2>2, <3>1, PickTidy DEF Calm
  <2>3. CASE PageShow
    <3>1. ~ overtaken /\ ~ Underway
      BY <2>3 DEF PageShow
    <3> QED BY <1>3, <2>3, <3>1, PageShowTidy DEF Calm
  <2>4. CASE SendPassword \/ CloseSetup \/ SetupAnswered \/ Age
    <3>1. ~ overtaken
      BY <2>4 DEF SendPassword, CloseSetup, SetupAnswered, Age, history
    <3> QED BY <1>3, <2>4, <3>1, OthersTidy DEF Calm
  <2>5. CASE \E g \in page.gets : GetFails(g)
    <3>1. ~ overtaken
      BY <2>5 DEF GetFails
    <3> QED BY <1>3, <2>5, <3>1, GetFailsTidy DEF Calm
  <2>6. CASE Answered
    <3>1. ~ overtaken
      BY <2>6 DEF Answered, VerifyAnswered
    <3> QED BY <1>3, <2>6, <3>1, AnsweredTidy DEF Calm, Answered
  <2>7. CASE RebeginAnswered
    <3>1. ~ overtaken
      BY <2>7 DEF RebeginAnswered, history
    <3> QED BY <1>3, <2>7, <3>1, RebeginAnsweredTidy DEF Calm
  <2> QED BY <1>3, <2>1, <2>2, <2>3, <2>4, <2>5, <2>6, <2>7 DEF Event
<1> QED BY <1>1, <1>2, <1>3 DEF PageNext

LEMMA InitCalm ==
    ASSUME PageInit PROVE Calm
<1> DEFINE b == Blank
<1>1. /\ page = StartConditional(b)
      /\ verifies = {} /\ setup = "none" /\ auto = 0
  BY DEF PageInit
<1>2. Empty(b) /\ ~ b.aborted /\ b.callers = <<>> /\ b.due = <<>>
  BY DEF Blank, Empty
<1>3. b \in Pages
  BY BlankShape
<1> HIDE DEF b
<1>4. Holds(page) /\ ~ page.aborted /\ page.callers = <<>> /\ page.due = <<>>
  BY <1>1, <1>2, <1>3, StartHolds, StartConditionalFields DEF Record
<1>5. OneAttempt /\ Counted
  BY <1>1, <1>4 DEF OneAttempt, Counted
<1>6. Sharing
  BY <1>4, OneCaller DEF Sharing
<1> QED BY <1>4, <1>5, <1>6 DEF Calm, Tidy

LEMMA CalmOrderly ==
    ASSUME Calm PROVE Orderly
<1> SUFFICES ASSUME Tidy
             PROVE  OneRequest /\ ConditionalIsHeld /\ ModalIsBusy /\ NeverALoop
  BY DEF Calm, Orderly
<1>1. OneRequest
  BY DEF OneRequest, Tidy, Holds, Empty
<1>2. ConditionalIsHeld /\ ModalIsBusy
  BY DEF ConditionalIsHeld, ModalIsBusy, Tidy, Holds, Empty
<1>3. NeverALoop
  BY DEF NeverALoop, Tidy, Counted
<1> QED BY <1>1, <1>2, <1>3

\* One call of the browser's at a time, which the script knows, and one
\* automatic re-begin for each deed of the user, as long as he lets an attempt
\* end before he starts the next.
THEOREM PageOrderly == PageSpec => []Orderly
<1>1. PageInit => PageShapes /\ Newest /\ Calm
  BY InitNewest, InitCalm
<1>2. PageShapes /\ Newest /\ Calm /\ [PageNext]_pageVars => (PageShapes /\ Newest /\ Calm)'
  BY NextGood, NextCalm DEF Good
<1>3. Calm => Orderly
  BY CalmOrderly
<1> QED BY <1>1, <1>2, <1>3, PTL DEF PageSpec

-----------------------------------------------------------------------------
(* What the status line calls in progress is in progress.                  *)

HasModal(p) == \E g \in p.gets : g.kind = "modal"
Resumes(callers) == \E i \in DOMAIN callers : callers[i] = "expired_modal"

\* An attempt that may still get an answer: a dialog of the browser's, a
\* request, or the dialog that follows a ceremony which had expired.
Pursued ==
    HasModal(page) \/ verifies # {} \/ Resumes(page.callers) \/ Resumes(page.due)
ProgressIsReal == InProgress => Pursued \/ silent

Sound(p) ==
    /\ p \in Pages
    /\ p.busy => HasModal(p)
    /\ \A g \in p.gets : g.n <= p.calls
    /\ p.held # 0 => \A g \in p.gets : g.n = p.held => g.kind = "conditional"

Pursuit ==
    /\ Sound(page)
    /\ page.status = "waiting" => HasModal(page)
    /\ page.status = "verifying" => Pursued \/ silent

\* What neither ends an attempt nor calls a new one verifying.
Pursues(p, q) ==
    /\ Sound(q) /\ q.due = p.due
    /\ HasModal(p) => HasModal(q)
    /\ Resumes(p.callers) => Resumes(q.callers)
    /\ q.status = "waiting" => p.status = "waiting" \/ HasModal(q)
    /\ q.status = "verifying" => p.status = "verifying"

LEMMA PursuesTransitive ==
    ASSUME NEW p, NEW q, NEW r, Pursues(p, q), Pursues(q, r)
    PROVE  Pursues(p, r)
  BY DEF Pursues

LEMMA SameCallsPursue ==
    ASSUME NEW p, NEW q \in Pages, Sound(p), q.gets = p.gets, q.calls = p.calls, q.due = p.due,
           q.held = p.held \/ q.held = 0, q.busy => p.busy, q.status = p.status,
           Resumes(p.callers) => Resumes(q.callers)
    PROVE  Pursues(p, q)
  BY DEF Pursues, Sound, HasModal

LEMMA AbortPursues ==
    ASSUME NEW p, Sound(p) PROVE Pursues(p, AbortConditional(p))
<1> DEFINE q == AbortConditional(p)
<1>1. p \in Pages
  BY DEF Sound
<1>2. /\ q \in Pages /\ q.gets = NotHeld(p) /\ q.calls = p.calls /\ q.held = 0
      /\ q.busy = p.busy /\ q.callers = p.callers /\ q.due = p.due
  BY <1>1, AbortFields DEF Record
<1>3. q.status = p.status
  BY <1>1 DEF AbortConditional, Pages
<1> HIDE DEF q
<1>4. ASSUME NEW g \in p.gets, g.kind = "modal" PROVE g.n # p.held
  <2>1. g.n # 0
    BY <1>1 DEF Pages, Gets
  <2> QED BY <1>4, <2>1 DEF Sound
<1>5. HasModal(p) => HasModal(q)
  BY <1>2, <1>4 DEF HasModal, NotHeld
<1>6. Sound(q)
  BY <1>2, <1>5 DEF Sound, NotHeld
<1> QED BY <1>2, <1>3, <1>5, <1>6 DEF Pursues, q

LEMMA TaskPursues ==
    ASSUME NEW p, Sound(p) PROVE Pursues(p, Task(p))
<1>1. p \in Pages
  BY DEF Sound
<1>2. Task(p).status = p.status
  BY <1>1 DEF Task, Pages
<1> QED BY <1>1, <1>2, TaskFields, SameCallsPursue DEF Record

LEMMA MarkSpentPursues ==
    ASSUME NEW p, Sound(p), NEW s PROVE Pursues(p, MarkSpent(s, p))
<1>1. p \in Pages
  BY DEF Sound
<1>2. MarkSpent(s, p).status = p.status
  BY <1>1 DEF MarkSpent, Pages
<1> QED BY <1>1, <1>2, MarkSpentFields, SameCallsPursue DEF Calls

LEMMA MarkRearmPursues ==
    ASSUME NEW p, Sound(p) PROVE Pursues(p, MarkRearm(p))
<1>1. p \in Pages
  BY DEF Sound
<1>2. MarkRearm(p).status = p.status
  BY <1>1 DEF MarkRearm, Pages
<1> QED BY <1>1, <1>2, MarkRearmFields, SameCallsPursue DEF Calls

LEMMA AppendResumes ==
    ASSUME NEW s \in Seq(Callers), NEW c \in Callers
    PROVE  /\ Resumes(s) => Resumes(Append(s, c))
           /\ c = "expired_modal" => Resumes(Append(s, c))
  BY DEF Resumes

LEMMA TailResumes ==
    ASSUME NEW s \in Seq(Callers), s # <<>>, Resumes(s), Head(s) # "expired_modal"
    PROVE  Resumes(Tail(s))
<1> PICK i \in DOMAIN s : s[i] = "expired_modal"
  BY DEF Resumes
<1>1. i \in 1..Len(s) /\ i # 1
  OBVIOUS
<1>2. i - 1 \in DOMAIN Tail(s) /\ Tail(s)[i - 1] = s[i]
  BY <1>1
<1> QED BY <1>2 DEF Resumes

LEMMA RebeginPursues ==
    ASSUME NEW p, Sound(p), NEW c \in Callers
    PROVE  /\ Pursues(p, Rebegin(c, p)) /\ Rebegin(c, p).status = p.status
           /\ c = "expired_modal" => Resumes(Rebegin(c, p).callers)
<1> DEFINE q == Rebegin(c, p)
<1>1. p \in Pages /\ p.callers \in Seq(Callers)
  BY DEF Sound, Pages
<1>2. q.status = p.status
  BY <1>1 DEF Rebegin, Pages
<1>3. /\ q \in Pages /\ Calls(p, q) /\ q.due = p.due /\ q.callers = Append(p.callers, c)
  BY <1>1, RebeginFields
<1> HIDE DEF q
<1>4. /\ Resumes(p.callers) => Resumes(q.callers)
      /\ c = "expired_modal" => Resumes(q.callers)
  BY <1>1, <1>3, AppendResumes
<1>5. Pursues(p, q)
  BY <1>2, <1>3, <1>4, SameCallsPursue DEF Calls
<1> QED BY <1>2, <1>4, <1>5 DEF q

\* A status that is none of the two.
LEMMA ToEnds ==
    ASSUME NEW p, Sound(p), NEW next \in {"idle", "success", "cancelled", "removed", "failed"}
    PROVE  /\ Pursues(p, To(next, p))
           /\ To(next, p).status # "verifying"
           /\ next # "success" => To(next, p).status # "waiting"
<1> DEFINE q == To(next, p)
<1>1. p \in Pages /\ next \in Statuses
  BY DEF Sound, Statuses, Legal
<1>2. Record(p, q) /\ Calls(p, q)
  BY <1>1, ToFields
<1>3. q.status = IF next \in Legal[p.status] THEN next ELSE p.status
  BY <1>1 DEF To, Pages
<1> HIDE DEF q
<1>4. /\ q.status # "verifying"
      /\ next # "success" => q.status # "waiting"
      /\ q.status = "waiting" => p.status = "waiting"
  BY <1>3 DEF Legal, Failures
<1>5. Sound(q) /\ (HasModal(p) => HasModal(q))
  BY <1>2 DEF Sound, HasModal, Calls, Record
<1> QED BY <1>2, <1>4, <1>5 DEF Pursues, Record, q

\* The page asked the browser for a passkey.
Called(kind, p, q) ==
    /\ q \in Pages /\ q.due = p.due /\ q.callers = p.callers
    /\ q.gets = NotHeld(p) \cup {Call(kind, p)} /\ q.calls = p.calls + 1
    /\ q.status = p.status \/ (kind = "modal" /\ q.status = "waiting")
    /\ kind = "conditional" => (q.busy => p.busy) /\ q.held = p.calls + 1
    /\ kind = "modal" => q.held = 0

LEMMA CallPursues ==
    ASSUME NEW p, Sound(p), NEW q, NEW kind \in Kinds, Called(kind, p, q)
    PROVE  Pursues(p, q) /\ (kind = "modal" => HasModal(q))
<1> DEFINE c == Call(kind, p)
<1>1. p \in Pages /\ p.calls \in Nat /\ c.n = p.calls + 1 /\ c.kind = kind
  BY DEF Sound, Pages, Call
<1>2. q.gets = NotHeld(p) \cup {c} /\ q.calls = p.calls + 1 /\ q \in Pages
  BY DEF Called
<1> HIDE DEF c
<1>3. \A g \in p.gets : g.n \in Nat \ {0} /\ g.n <= p.calls
  BY <1>1 DEF Sound, Pages, Gets
<1>4. ASSUME NEW g \in p.gets, g.kind = "modal" PROVE g \in q.gets
  <2>1. g.n # p.held
    BY <1>3, <1>4 DEF Sound
  <2> QED BY <1>2, <2>1 DEF NotHeld
<1>5. HasModal(p) => HasModal(q)
  BY <1>4 DEF HasModal
<1>6. kind = "modal" => HasModal(q)
  BY <1>1, <1>2 DEF HasModal
<1>7. \A g \in q.gets : g.n <= q.calls
  <2>1. ASSUME NEW g \in p.gets PROVE g.n <= p.calls + 1
    BY <1>1, <1>3
  <2>2. c.n <= p.calls + 1
    BY <1>1
  <2> QED BY <1>2, <2>1, <2>2 DEF NotHeld
<1>8. q.held # 0 => \A g \in q.gets : g.n = q.held => g.kind = "conditional"
  <2>1. ASSUME NEW g \in p.gets PROVE g.n # p.calls + 1
    BY <1>1, <1>3
  <2>2. q.held # 0 => kind = "conditional" /\ q.held = p.calls + 1
    BY DEF Called, Kinds
  <2> QED BY <1>1, <1>2, <2>1, <2>2 DEF NotHeld
<1>9. q.busy => HasModal(q)
  <2>1. CASE kind = "modal"
    BY <1>6, <2>1
  <2>2. CASE kind = "conditional"
    <3>1. q.busy => p.busy
      BY <2>2 DEF Called
    <3> QED BY <1>5, <3>1 DEF Sound
  <2> QED BY <2>1, <2>2 DEF Kinds
<1>10. Sound(q)
  BY <1>2, <1>7, <1>8, <1>9 DEF Sound
<1>11. /\ q.due = p.due /\ q.callers = p.callers
       /\ q.status = "waiting" => p.status = "waiting" \/ HasModal(q)
       /\ q.status = "verifying" => p.status = "verifying"
  BY <1>6 DEF Called
<1> QED BY <1>5, <1>6, <1>10, <1>11 DEF Pursues

LEMMA StartPursues ==
    ASSUME NEW p, Sound(p) PROVE Pursues(p, StartConditional(p))
<1> DEFINE q == StartConditional(p)
           b == Get("conditional", AbortConditional(p))
<1>1. p \in Pages
  BY DEF Sound
<1>2. Record(p, q) /\ q.busy = p.busy
  BY <1>1, StartConditionalFields
<1>3. q.status = p.status
  <2>1. AbortConditional(p) \in Pages /\ AbortConditional(p).status = p.status
    BY <1>1, AbortFields DEF AbortConditional, Pages, Record
  <2>2. b \in Pages /\ b.status = p.status
    <3> DEFINE a == AbortConditional(p)
    <3> HIDE DEF a
    <3>1. Get("conditional", a) \in Pages
      BY <2>1, GetFields DEF Kinds, Record, a
    <3>2. Get("conditional", a).status = a.status
      BY <2>1 DEF Get, Pages, a
    <3> QED BY <2>1, <3>1, <3>2 DEF a
  <2> HIDE DEF b
  <2>3. [b EXCEPT !.held = b.calls].status = b.status
    BY <2>2 DEF Pages
  <2>4. q = [b EXCEPT !.held = b.calls] \/ q = p
    BY DEF StartConditional, b
  <2> QED BY <2>2, <2>3, <2>4
<1>4. CASE Calls(p, q)
  BY <1>1, <1>2, <1>3, <1>4, SameCallsPursue DEF Record, Calls
<1>5. CASE /\ q.gets = NotHeld(p) \cup {Call("conditional", p)}
           /\ q.calls = p.calls + 1 /\ q.held = p.calls + 1
  <2>1. q \in Pages /\ q.due = p.due /\ q.callers = p.callers /\ "conditional" \in Kinds
    BY <1>2 DEF Record, Kinds
  <2>2. q.busy = p.busy /\ q.status = p.status
    BY <1>2, <1>3
  <2> HIDE DEF q
  <2>3. Called("conditional", p, q)
    BY <1>5, <2>1, <2>2 DEF Called
  <2>4. Pursues(p, q)
    BY <2>1, <2>3, CallPursues
  <2> QED BY <2>4 DEF q
<1> QED BY <1>1, <1>4, <1>5, StartConditionalFields

LEMMA ProceedPursues ==
    ASSUME NEW p, Sound(p) PROVE Pursues(p, Proceed(p)) /\ HasModal(Proceed(p))
<1> DEFINE q == Proceed(p)
           b == Get("modal", AbortConditional([p EXCEPT !.busy = TRUE]))
<1>1. p \in Pages
  BY DEF Sound
<1>2. Record(p, q) /\ q.busy
  BY <1>1, ProceedFields
<1>3. CASE p.busy
  <2>1. q = p
    BY <1>3 DEF Proceed
  <2>2. Pursues(p, p)
    BY DEF Pursues
  <2> QED BY <1>3, <2>1, <2>2 DEF Sound
<1>4. CASE ~ p.busy
  <2>1. q = To("waiting", b)
    BY <1>4 DEF Proceed
  <2>2. b \in Pages /\ b.status = p.status
    <3> DEFINE r == [p EXCEPT !.busy = TRUE]
               a == AbortConditional(r)
    <3>1. r \in Pages /\ r.status = p.status
      BY <1>1 DEF Pages
    <3> HIDE DEF r
    <3>2. a \in Pages /\ a.status = r.status
      BY <3>1, AbortFields DEF AbortConditional, Pages, Record
    <3> HIDE DEF a
    <3>3. Get("modal", a) \in Pages
      BY <3>2, GetFields DEF Kinds, Record
    <3>4. Get("modal", a).status = a.status
      BY <3>2 DEF Get, Pages
    <3> QED BY <3>1, <3>2, <3>3, <3>4 DEF a, r
  <2> HIDE DEF b
  <2>3. q.status = p.status \/ q.status = "waiting"
    BY <2>1, <2>2 DEF To, Pages
  <2>4. /\ q.gets = NotHeld(p) \cup {Call("modal", p)}
        /\ q.calls = p.calls + 1 /\ q.held = 0
    BY <1>1, <1>4, ProceedFields
  <2>5. q \in Pages /\ q.due = p.due /\ q.callers = p.callers /\ "modal" \in Kinds
    BY <1>2 DEF Record, Kinds
  <2> HIDE DEF q
  <2>6. Called("modal", p, q)
    BY <2>3, <2>4, <2>5 DEF Called
  <2>7. Pursues(p, q) /\ HasModal(q)
    BY <2>5, <2>6, CallPursues
  <2> QED BY <2>7 DEF q
<1> QED BY <1>3, <1>4

LEMMA ModalGetPursues ==
    ASSUME NEW p, Sound(p)
    PROVE  /\ Pursues(p, ModalGet(p))
           /\ ~ p.spent /\ ~ p.aged => HasModal(ModalGet(p))
  BY RebeginPursues, ProceedPursues DEF ModalGet, NeedsPreModalRebegin, Callers

LEMMA ResumePursues ==
    ASSUME NEW p, Sound(p), NEW c \in Callers, ~ p.spent, ~ p.aged
    PROVE  /\ Pursues(p, Resume(p, c))
           /\ c = "expired_modal" => HasModal(Resume(p, c))
<1> DEFINE m == MarkRearm(p)
<1>1. Pursues(p, m)
  BY MarkRearmPursues
<1>2. Sound(m) /\ ~ m.spent /\ ~ m.aged
  BY <1>1, MarkRearmFields DEF Pursues, Sound
<1>3. CASE c = "click"
  <2>1. Resume(p, c) = Proceed(p)
    BY <1>3 DEF Resume
  <2> QED BY <1>3, <2>1, ProceedPursues
<1>4. CASE c = "restore"
  <2>1. Resume(p, c) = StartConditional(p)
    BY <1>4 DEF Resume
  <2> QED BY <1>4, <2>1, StartPursues
<1>5. CASE c = "expired_modal"
  <2>1. Resume(p, c) = ModalGet(m)
    BY <1>5 DEF Resume
  <2> HIDE DEF m
  <2> QED BY <1>1, <1>2, <2>1, ModalGetPursues, PursuesTransitive
<1>6. CASE c \notin {"click", "restore", "expired_modal"}
  <2>1. Resume(p, c) = StartConditional(m)
    BY <1>6 DEF Resume
  <2> HIDE DEF m
  <2>2. Pursues(m, StartConditional(m))
    BY <1>2, StartPursues
  <2> QED BY <1>1, <1>6, <2>1, <2>2, PursuesTransitive
<1> QED BY <1>3, <1>4, <1>5, <1>6

LEMMA RearmAfterPursues ==
    ASSUME NEW p, Sound(p)
    PROVE  LET q == RearmAfterVisibleFailure(p)
           IN  Pursues(p, q) /\ q.status = p.status
<1>1. Pursues(p, p)
  BY DEF Pursues
<1> QED BY <1>1, RebeginPursues DEF RearmAfterVisibleFailure, Callers, Automatic

\* A visible failure.
LEMMA FailsEnds ==
    ASSUME NEW p, Sound(p), NEW next \in {"cancelled", "removed", "failed"}
    PROVE  LET q == RearmAfterVisibleFailure(To(next, p))
           IN  Pursues(p, q) /\ q.status \notin {"waiting", "verifying"}
<1> DEFINE t == To(next, p)
<1>1. Pursues(p, t) /\ t.status \notin {"waiting", "verifying"}
  BY ToEnds
<1>2. Sound(t)
  BY <1>1 DEF Pursues
<1> HIDE DEF t
<1>3. LET q == RearmAfterVisibleFailure(t)
      IN  Pursues(t, q) /\ q.status = t.status
  BY <1>2, RearmAfterPursues
<1>4. LET q == RearmAfterVisibleFailure(t)
      IN  Pursues(p, q) /\ q.status \notin {"waiting", "verifying"}
  BY <1>1, <1>3, PursuesTransitive
<1> QED BY <1>4 DEF t

\* Every way a verification is refused ends what it was, but for the two that
\* an expired ceremony has.
LEMMA AfterEnds ==
    ASSUME NEW p, Sound(p), NEW source \in Kinds,
           NEW answer \in {"expired", "unknown", "typed", "uv_setup", "other"}
    PROVE  LET q == After(answer, source, p)
           IN  /\ Pursues(p, q)
               /\ \/ q.status # "verifying"
                  \/ answer = "expired" /\ CanRearm(p) /\ source = "conditional"
                  \/ Resumes(q.callers)
<1>1. CASE answer = "expired" /\ CanRearm(p)
  <2>1. After(answer, source, p) = Rebegin(Expired(source), p)
    BY <1>1 DEF After
  <2>2. Expired(source) \in Callers /\ (source = "modal" => Expired(source) = "expired_modal")
    BY DEF Expired, Callers, Automatic
  <2> QED BY <1>1, <2>1, <2>2, RebeginPursues DEF Kinds
<1>2. CASE answer = "expired" /\ ~ CanRearm(p)
  <2>1. After(answer, source, p) = To("failed", p)
    BY <1>2 DEF After
  <2> QED BY <2>1, ToEnds
<1>3. CASE answer = "unknown"
  <2>1. After(answer, source, p) = RearmAfterVisibleFailure(To("removed", p))
    BY <1>3 DEF After
  <2> QED BY <2>1, FailsEnds
<1>4. CASE answer = "typed"
  <2>1. After(answer, source, p) = RearmAfterVisibleFailure(To("failed", p))
    BY <1>4 DEF After
  <2> QED BY <2>1, FailsEnds
<1>5. CASE answer = "uv_setup"
  <2>1. After(answer, source, p) = To("idle", p)
    BY <1>5 DEF After
  <2> QED BY <2>1, ToEnds
<1>6. CASE answer = "other"
  <2>1. After(answer, source, p) =
          IF p.status \in {"waiting", "verifying"} THEN To("failed", p) ELSE p
    BY <1>6 DEF After
  <2>2. Pursues(p, p)
    BY DEF Pursues
  <2> QED BY <2>1, <2>2, ToEnds
<1> QED BY <1>1, <1>2, <1>3, <1>4, <1>5, <1>6

\* A step that pursues, with no verification answered.
LEMMA PursuedStep ==
    ASSUME Pursuit, Pursues(page, page'), verifies \subseteq verifies', silent' = silent
    PROVE  Pursuit'
<1>1. Sound(page)' /\ (page'.status = "waiting" => HasModal(page'))
  BY DEF Pursuit, Pursues
<1>2. ASSUME page'.status = "verifying" PROVE Pursued' \/ silent'
  <2>1. Pursued \/ silent
    BY <1>2 DEF Pursuit, Pursues
  <2> QED BY <2>1 DEF Pursued, Pursues
<1> QED BY <1>1, <1>2 DEF Pursuit

\* A step after which the page says how the attempt went, or is waiting.
LEMMA EndedStep ==
    ASSUME Pursuit, Pursues(page, page'), page'.status # "verifying"
    PROVE  Pursuit'
  BY DEF Pursuit, Pursues

LEMMA ClickPursued ==
    ASSUME Pursuit, Click PROVE Pursuit'
<1> DEFINE a == AbortConditional(page)
           m == ModalGet(a)
           t == Task(m)
<1>1. page' = t /\ UNCHANGED <<verifies, silent>> /\ Sound(page)
  BY DEF Click, Pursuit
<1>2. Pursues(page, a) /\ Sound(a)
  BY <1>1, AbortPursues DEF Pursues
<1> HIDE DEF a
<1>3. Pursues(a, m) /\ Sound(m)
  BY <1>2, ModalGetPursues DEF Pursues
<1> HIDE DEF m
<1>4. Pursues(m, t)
  BY <1>3, TaskPursues
<1> HIDE DEF t
<1>5. Pursues(page, page')
  BY <1>1, <1>2, <1>3, <1>4, PursuesTransitive
<1> QED BY <1>1, <1>5, PursuedStep

\* A call that settles leaves the others as they are.
LEMMA SettledSound ==
    ASSUME Sound(page), NEW g \in page.gets
    PROVE  LET s == SettledGet(g)
           IN  /\ Sound(s) /\ s.status = page.status
               /\ g.kind # "modal" => Pursues(page, s)
<1> DEFINE s == SettledGet(g)
<1>1. page \in Pages
  BY DEF Sound
<1>2. /\ Record(page, s) /\ s.gets = page.gets \ {g} /\ s.calls = page.calls
      /\ g.kind = "modal" => ~ s.busy /\ s.held = page.held
      /\ g.kind # "modal" => s.busy = page.busy /\ s.held = 0
  BY <1>1, SettledFields
<1>3. s.status = page.status
  BY <1>1 DEF SettledGet, Pages
<1> HIDE DEF s
<1>4. g.kind # "modal" => (HasModal(page) => HasModal(s))
  BY <1>2 DEF HasModal
<1>5. s.busy => HasModal(s)
  BY <1>2, <1>4 DEF Sound
<1>6. Sound(s)
  BY <1>2, <1>5 DEF Sound, Record
<1>7. g.kind # "modal" => Pursues(page, s)
  BY <1>2, <1>3, <1>4, <1>6 DEF Pursues, Record
<1> QED BY <1>3, <1>6, <1>7 DEF s

LEMMA PickPursued ==
    ASSUME Pursuit, PickPasskey PROVE Pursuit'
<1> PICK g \in page.gets : RunVerify(g, SettledGet(g)) /\ silent' = silent
  BY DEF PickPasskey
<1> DEFINE s == SettledGet(g)
           m == MarkSpent(g.state, s)
           t == To("verifying", m)
<1>1. page' = t /\ verifies' # {}
  BY DEF RunVerify
<1>2. Sound(s)
  BY SettledSound DEF Pursuit
<1> HIDE DEF s
<1>3. Sound(m)
  BY <1>2, MarkSpentPursues DEF Pursues
<1> HIDE DEF m
<1>4. m \in Pages /\ "verifying" \in Statuses
  BY <1>3 DEF Sound, Statuses, Legal
<1>5. Record(m, t) /\ Calls(m, t)
  BY <1>4, ToFields
<1>6. t.status = IF "verifying" \in Legal[m.status] THEN "verifying" ELSE m.status
  BY <1>4 DEF To, Pages
<1> HIDE DEF t
<1>7. t.status # "waiting"
  BY <1>6 DEF Legal
<1>8. Sound(t)
  BY <1>3, <1>5 DEF Sound, HasModal, Calls, Record
<1> QED BY <1>1, <1>7, <1>8 DEF Pursuit, Pursued

LEMMA PageShowPursued ==
    ASSUME Pursuit, PageShow PROVE Pursuit'
<1> DEFINE a == AbortConditional(page)
           b == [a EXCEPT !.busy = FALSE]
           m == MarkSpent(page.state, b)
           r == Rebegin("restore", m)
           t == Task(r)
<1>1. page' = t /\ UNCHANGED <<verifies, silent>> /\ Sound(page) /\ "restore" \in Callers
  BY DEF PageShow, Pursuit, Callers
<1>2. Pursues(page, a) /\ Sound(a)
  BY <1>1, AbortPursues DEF Pursues
<1> HIDE DEF a
<1>3. a \in Pages
  BY <1>2 DEF Sound
<1>4. /\ b \in Pages /\ b.gets = a.gets /\ b.calls = a.calls /\ b.due = a.due
      /\ b.held = a.held /\ ~ b.busy /\ b.status = a.status /\ b.callers = a.callers
  BY <1>3 DEF Pages
<1> HIDE DEF b
<1>5. Pursues(a, b) /\ Sound(b)
  BY <1>2, <1>4, SameCallsPursue DEF Pursues
<1>6. Pursues(b, m) /\ Sound(m)
  BY <1>5, MarkSpentPursues DEF Pursues
<1> HIDE DEF m
<1>7. Pursues(m, r) /\ Sound(r)
  BY <1>1, <1>6, RebeginPursues DEF Pursues
<1> HIDE DEF r
<1>8. Pursues(r, t)
  BY <1>7, TaskPursues
<1> HIDE DEF t
<1>9. Pursues(page, page')
  BY <1>1, <1>2, <1>5, <1>6, <1>7, <1>8, PursuesTransitive
<1> QED BY <1>1, <1>9, PursuedStep

LEMMA GetFailsPursued ==
    ASSUME Pursuit, NEW g \in page.gets, GetFails(g) PROVE Pursuit'
<1> DEFINE s == SettledGet(g)
           m == MarkSpent(g.state, s)
<1>1. UNCHANGED <<verifies, silent>> /\ Sound(page)
  BY DEF GetFails, Pursuit
<1>2. Sound(s) /\ (g.kind # "modal" => Pursues(page, s))
  BY <1>1, SettledSound
<1>3. page' = IF g.kind = "modal" THEN RearmAfterVisibleFailure(To("cancelled", m)) ELSE m
  BY DEF GetFails
<1> HIDE DEF s
<1>4. Pursues(s, m) /\ Sound(m)
  BY <1>2, MarkSpentPursues DEF Pursues
<1> HIDE DEF m
<1>5. CASE g.kind = "modal"
  <2> DEFINE q == RearmAfterVisibleFailure(To("cancelled", m))
  <2>1. Pursues(m, q) /\ q.status \notin {"waiting", "verifying"}
    BY <1>4, FailsEnds
  <2>2. page' = q
    BY <1>3, <1>5
  <2> HIDE DEF q
  <2> QED BY <2>1, <2>2 DEF Pursuit, Pursues
<1>6. CASE g.kind # "modal"
  <2>1. Pursues(page, page')
    BY <1>2, <1>3, <1>4, <1>6, PursuesTransitive
  <2> QED BY <1>1, <2>1, PursuedStep
<1> QED BY <1>5, <1>6

LEMMA VerifyAnsweredPursued ==
    ASSUME PageShapes, Pursuit, NEW v \in verifies, VerifyAnswered(v) PROVE Pursuit'
<1>1. Sound(page) /\ v.source \in Kinds
  BY DEF Pursuit, PageShapes, Verifies
<1>2. CASE Accepted(v)
  <2>1. page' = To("success", page)
    BY <1>2 DEF Accepted
  <2>2. Pursues(page, page') /\ page'.status # "verifying"
    BY <1>1, <2>1, ToEnds
  <2> QED BY <2>2, EndedStep
<1>3. CASE Refused(v)
  <2>1. PICK answer \in {"expired", "unknown", "typed", "uv_setup", "other"} :
          /\ page' = After(answer, v.source, page)
          /\ silent' = (silent \/ (answer = "expired" /\ v.source = "conditional" /\ CanRearm(page)))
    BY <1>3 DEF Refused
  <2>2. /\ Pursues(page, page')
        /\ \/ page'.status # "verifying"
           \/ answer = "expired" /\ CanRearm(page) /\ v.source = "conditional"
           \/ Resumes(page'.callers)
    BY <1>1, <2>1, AfterEnds
  <2>3. page'.status = "verifying" => Resumes(page'.callers) \/ silent'
    BY <2>1, <2>2
  <2> QED BY <2>2, <2>3 DEF Pursuit, Pursues, Pursued
<1> QED BY <1>2, <1>3 DEF VerifyAnswered

LEMMA RebeginAnsweredPursued ==
    ASSUME PageShapes, Pursuit, Free, RebeginAnswered PROVE Pursuit'
<1>1. /\ Sound(page) /\ page \in Pages /\ page.due = <<>> /\ ~ Resumes(page.due)
      /\ page.callers \in Seq(Callers) /\ UNCHANGED <<verifies, silent>> /\ begins \in Nat
  BY DEF PageShapes, Pursuit, Free, Resumes, Pages, RebeginAnswered, history
<1>2. CASE page' = Adopt(begins + 1, [page EXCEPT !.due = page.callers, !.callers = <<>>])
  <2> DEFINE none == <<>>
             b == begins + 1
             c == page.callers
             d == [[page EXCEPT !.due = c] EXCEPT !.callers = none]
  <2>1. /\ d = [page EXCEPT !.due = page.callers, !.callers = <<>>] /\ b \in Nat
        /\ none \in Seq(Callers) /\ c \in Seq(Callers)
    BY <1>1
  <2> HIDE DEF c, none
  <2>2. d \in Pages /\ Calls(page, d) /\ d.due = c /\ d.status = page.status
    BY <1>1, <2>1 DEF Pages, Calls
  <2> HIDE DEF d, b
  <2>3. LET q == Adopt(b, d)
        IN  q \in Pages /\ Calls(d, q) /\ q.due = d.due /\ q.status = d.status
    BY <2>1, <2>2 DEF Adopt, Pages, Calls
  <2>4. page' = Adopt(b, d)
    BY <1>2, <2>1 DEF b
  <2>5. /\ page' \in Pages /\ Calls(page, page') /\ page'.due = page.callers
        /\ page'.status = page.status
    BY <2>2, <2>3, <2>4 DEF c, Calls
  <2>6. Sound(page') /\ (HasModal(page) => HasModal(page'))
    BY <1>1, <2>5 DEF Sound, HasModal, Calls
  <2> QED BY <1>1, <2>5, <2>6 DEF Pursuit, Pursued
<1>3. CASE page' = [Refuse(page) EXCEPT !.callers = <<>>]
  <2> DEFINE r == Refuse(page)
  <2>1. CASE r = To("failed", page)
    <3>1. Pursues(page, r) /\ r.status \notin {"waiting", "verifying"}
      <4> HIDE DEF r
      <4> QED BY <1>1, <2>1, ToEnds
    <3> HIDE DEF r
    <3>2. r \in Pages /\ page' = [r EXCEPT !.callers = <<>>]
      BY <1>3, <3>1 DEF Pursues, Sound, r
    <3>3. page' \in Pages /\ Calls(r, page')
      BY <3>2, NoCallersFields
    <3>4. page'.status = r.status
      BY <3>2 DEF Pages
    <3>5. Sound(page')
      BY <3>1, <3>3 DEF Pursues, Sound, HasModal, Calls
    <3> QED BY <3>1, <3>4, <3>5 DEF Pursuit
  <2>2. CASE r = page /\ ~ Resumes(page.callers)
    <3>1. page' = [page EXCEPT !.callers = <<>>]
      BY <1>3, <2>2
    <3>2. page' \in Pages /\ Calls(page, page')
      BY <1>1, <3>1, NoCallersFields
    <3>3. page'.status = page.status
      BY <1>1, <3>1 DEF Pages
    <3>4. Sound(page') /\ (HasModal(page) => HasModal(page'))
      BY <1>1, <3>2 DEF Sound, HasModal, Calls
    <3> QED BY <1>1, <2>2, <3>3, <3>4 DEF Pursuit, Pursued
  <2>3. r = To("failed", page) \/ (r = page /\ ~ Resumes(page.callers))
    BY DEF Refuse, Resumes
  <2> QED BY <2>1, <2>2, <2>3
<1> QED BY <1>2, <1>3 DEF RebeginAnswered

LEMMA ReactPursued ==
    ASSUME PageShapes, Newest, Pursuit, React PROVE Pursuit'
<1> DEFINE rest == Tail(page.due)
           c == Head(page.due)
           d == [page EXCEPT !.due = rest]
           r == Resume(d, c)
           t == Task(r)
<1>1. /\ page \in Pages /\ page.due # <<>> /\ page.due \in Seq(Callers) /\ Sound(page)
      /\ ~ page.spent /\ ~ page.aged
  BY DEF PageShapes, Pages, React, Newest, Pursuit
<1>2. /\ rest \in Seq(Callers) /\ c \in Callers
      /\ Resumes(page.due) => c = "expired_modal" \/ Resumes(rest)
  BY <1>1, TailResumes
<1>3. page' = t /\ UNCHANGED <<verifies, silent>>
  BY DEF React, history
<1> HIDE DEF rest, c
<1>4. /\ d \in Pages /\ Calls(page, d) /\ d.due = rest /\ d.status = page.status
      /\ d.callers = page.callers /\ d.spent = page.spent /\ d.aged = page.aged
  BY <1>1, <1>2 DEF Pages, Calls
<1> HIDE DEF d
<1>5. Sound(d) /\ (HasModal(page) => HasModal(d))
  BY <1>1, <1>4 DEF Sound, HasModal, Calls
<1>6. Pursues(d, r) /\ (c = "expired_modal" => HasModal(r))
  BY <1>1, <1>2, <1>4, <1>5, ResumePursues
<1>7. Sound(r)
  BY <1>6 DEF Pursues
<1> HIDE DEF r
<1>8. Pursues(r, t)
  BY <1>7, TaskPursues
<1> HIDE DEF t
<1>9. Pursues(d, page') /\ (c = "expired_modal" => HasModal(page'))
  BY <1>3, <1>6, <1>8, PursuesTransitive DEF Pursues
<1>10. Sound(page') /\ (page'.status = "waiting" => HasModal(page'))
  BY <1>4, <1>5, <1>9 DEF Pursuit, Pursues
<1>11. ASSUME page'.status = "verifying" PROVE Pursued' \/ silent'
  <2>1. Pursued \/ silent
    BY <1>4, <1>9, <1>11 DEF Pursuit, Pursues
  <2>2. Resumes(page.due) => HasModal(page') \/ Resumes(page'.due)
    BY <1>2, <1>4, <1>9 DEF Pursues
  <2>3. /\ HasModal(page) => HasModal(page')
        /\ Resumes(page.callers) => Resumes(page'.callers)
    BY <1>4, <1>5, <1>9 DEF Pursues
  <2> QED BY <1>3, <2>1, <2>2, <2>3 DEF Pursued
<1> QED BY <1>10, <1>11 DEF Pursuit

LEMMA OthersPursued ==
    ASSUME Pursuit, SendPassword \/ CloseSetup \/ SetupAnswered \/ Age \/ UNCHANGED pageVars
    PROVE  Pursuit'
<1>1. Sound(page) /\ page \in Pages /\ UNCHANGED <<verifies, silent>>
  BY DEF Pursuit, Sound, SendPassword, CloseSetup, SetupAnswered, Age, pageVars, history
<1>2. CASE page' = page
  BY <1>1, <1>2 DEF Pursuit, Pursued
<1>3. CASE page' = Rebegin("restore", To("failed", page))
  <2> DEFINE f == To("failed", page)
  <2>1. Pursues(page, f) /\ f.status # "verifying" /\ Sound(f)
    BY <1>1, ToEnds DEF Pursues
  <2> HIDE DEF f
  <2>2. Pursues(f, Rebegin("restore", f)) /\ Rebegin("restore", f).status = f.status
    BY <2>1, RebeginPursues DEF Callers
  <2>3. Pursues(page, page') /\ page'.status # "verifying"
    BY <1>3, <2>1, <2>2, PursuesTransitive DEF f
  <2> QED BY <2>3, EndedStep
<1>4. CASE page' = [page EXCEPT !.aged = TRUE]
  <2> DEFINE q == [page EXCEPT !.aged = TRUE]
  <2>1. /\ q \in Pages /\ q.gets = page.gets /\ q.calls = page.calls /\ q.due = page.due
        /\ q.held = page.held /\ q.busy = page.busy /\ q.status = page.status
        /\ q.callers = page.callers
    BY <1>1 DEF Pages
  <2>2. page' = q
    BY <1>4
  <2> HIDE DEF q
  <2>3. Pursues(page, page')
    BY <1>1, <2>1, <2>2, SameCallsPursue
  <2> QED BY <1>1, <2>3, PursuedStep
<1> QED BY <1>2, <1>3, <1>4 DEF SendPassword, CloseSetup, SetupAnswered, Age, pageVars

LEMMA InitPursued ==
    ASSUME PageInit PROVE Pursuit
<1>1. page = StartConditional(Blank)
  BY DEF PageInit
<1>2. Blank.status = "idle" /\ Sound(Blank)
  BY BlankShape DEF Blank, Sound
<1>3. Pursues(Blank, page)
  BY <1>1, <1>2, StartPursues
<1> QED BY <1>2, <1>3 DEF Pursuit, Pursues

LEMMA NextPursued ==
    ASSUME PageShapes, Newest, Pursuit, [PageNext]_pageVars PROVE Pursuit'
<1>1. CASE React
  BY <1>1, ReactPursued
<1>2. CASE SendPassword \/ CloseSetup \/ SetupAnswered \/ Age \/ UNCHANGED pageVars
  BY <1>2, OthersPursued
<1>3. CASE Free /\ Event
  <2>1. CASE Click
    BY <2>1, ClickPursued
  <2>2. CASE PickPasskey
    BY <2>2, PickPursued
  <2>3. CASE PageShow
    BY <2>3, PageShowPursued
  <2>4. CASE \E g \in page.gets : GetFails(g)
    BY <2>4, GetFailsPursued
  <2>5. CASE Answered
    BY <2>5, VerifyAnsweredPursued DEF Answered
  <2>6. CASE RebeginAnswered
    BY <1>3, <2>6, RebeginAnsweredPursued
  <2> QED BY <1>2, <1>3, <2>1, <2>2, <2>3, <2>4, <2>5, <2>6 DEF Event
<1> QED BY <1>1, <1>2, <1>3 DEF PageNext

\* While the status line says that an attempt is in progress, something is under
\* way that will decide it, and what decides it corrects the line or hands on to
\* the next that will (runVerify, finishVerify, "must not leave
\* 'Verifying...' up").  To ProgressEnds this leaves that requests and dialogs end.
THEOREM ProgressPursued == PageSpec => []ProgressIsReal
<1>1. PageInit => PageShapes /\ Newest /\ Pursuit
  BY InitNewest, InitPursued
<1>2. PageShapes /\ Newest /\ Pursuit /\ [PageNext]_pageVars
        => (PageShapes /\ Newest /\ Pursuit)'
  BY NextGood, NextPursued DEF Good
<1>3. Pursuit => ProgressIsReal
  BY DEF Pursuit, ProgressIsReal, Pursued, InProgress
<1> QED BY <1>1, <1>2, <1>3, PTL DEF PageSpec
=============================================================================
