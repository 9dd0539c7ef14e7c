-------------------------- MODULE EnforcementPreview --------------------------
(***************************************************************************)
(* The enforcement preview: background scans count who still has to enroll *)
(* and publish into one Redis hash, through two Lua scripts that Redis     *)
(* runs atomically.  Every save, the Recalculate button and the daily      *)
(* schedule queue a recount, where the queue is not full.  Scans overlap,  *)
(* stall, die and finish in any order, and the hash may be evicted or      *)
(* flushed at any moment.                                                  *)
(***************************************************************************)
EXTENDS Naturals

CONSTANTS
    Policies,       \* the signatures of saved policies
    Jobs,           \* background workers
    MaxScans        \* bound: recounts ever queued

VARIABLES
    hash,           \* the Redis hash
    cleared,        \* scans begun before the hash was last lost
    begun,          \* scans begun
    job,            \* the scan each worker runs
    policy,         \* the saved policy
    form,           \* what the open settings form waits for
    queue,          \* recounts in rq's long queue
    fault           \* flips whenever a recount is lost; no step reads it

vars == <<hash, cleared, begun, job, policy, form, queue, fault>>

Absent == [epoch |-> 0]
Idle   == [phase |-> "idle"]
NoForm == [after |-> 0, begun |-> 0]
Uncounted == [scan |-> 0, begun |-> 0]

\* A hash is born with an epoch nobody used; here: the scan that bore it.
Born == [epoch |-> begun + 1, seq |-> 0, result |-> [p \in Policies |-> Uncounted]]

\* _ENFORCEMENT_PREVIEW_START.
StartScan(j) ==
    LET found == IF hash = Absent THEN Born ELSE hash
    IN  /\ job[j] = Idle /\ queue > 0
        /\ queue' = queue - 1
        /\ begun' = begun + 1
        /\ hash' = [found EXCEPT !.seq = @ + 1]
        /\ job' = [job EXCEPT ![j] = [phase |-> "scanning", epoch |-> found.epoch,
                                      scan |-> found.seq + 1, begun |-> begun + 1]]
        /\ UNCHANGED <<cleared, policy, form, fault>>

\* refresh_enforcement_preview reads the policy and counts.
Count(j) ==
    /\ job[j].phase = "scanning"
    /\ job' = [job EXCEPT ![j] = [phase |-> "counted", epoch |-> job[j].epoch, scan |-> job[j].scan,
                                  begun |-> job[j].begun, policy |-> policy]]
    /\ UNCHANGED <<hash, cleared, begun, policy, form, queue, fault>>

\* _ENFORCEMENT_PREVIEW_PUBLISH: into the hash it began with, over nothing newer.
\* Mutants: without the epoch; without the scan number.
AcceptsAnyEpoch(j) ==
    hash # Absent /\ ~ (hash.result[job[j].policy].scan > job[j].scan)
AcceptsLast(j) == hash.epoch = job[j].epoch
Accepts(j) ==
    /\ hash.epoch = job[j].epoch
    /\ ~ (hash.result[job[j].policy].scan > job[j].scan)

Publish(j) ==
    /\ job[j].phase = "counted"
    /\ hash' = IF Accepts(j)
               THEN [hash EXCEPT !.result[job[j].policy] = [scan |-> job[j].scan, begun |-> job[j].begun]]
               ELSE hash
    /\ job' = [job EXCEPT ![j] = Idle]
    /\ UNCHANGED <<cleared, begun, policy, form, queue, fault>>

\* rq does not run a job again.
Die(j) ==
    /\ job[j] # Idle
    /\ job' = [job EXCEPT ![j] = Idle]
    /\ fault' = ~ fault
    /\ UNCHANGED <<hash, cleared, begun, policy, form, queue>>

Evict ==
    /\ hash # Absent
    /\ hash' = Absent
    /\ cleared' = begun
    /\ fault' = ~ fault
    /\ UNCHANGED <<begun, job, policy, form, queue>>

\* get_enforcement_preview_scan.
\* Mutant: the number of the scan now shown.
LastShown == IF hash = Absent THEN 0 ELSE hash.result[policy].scan
LastScan == IF hash = Absent THEN 0 ELSE hash.seq

\* enqueue_enforcement_preview: always a new job, unless the queue is full.
\* Mutant: none while another one is queued or runs.
EnqueuedOnce == IF queue > 0 \/ \E j \in Jobs : job[j] # Idle THEN queue ELSE queue + 1
Enqueued == queue + 1

EnqueueOrOverload ==
    \/ begun + queue < MaxScans /\ queue' = Enqueued /\ UNCHANGED fault
    \/ fault' = ~ fault /\ UNCHANGED queue

\* onload and on_update of a saved form, recalculate_enforcement_preview: the
\* form waits for a scan with a higher number.
Ask(p) ==
    /\ policy' = p
    /\ form' = [after |-> LastScan, begun |-> begun]
    /\ EnqueueOrOverload
    /\ UNCHANGED <<hash, cleared, begun, job>>

\* Somebody else saves the policy.
Save(p) ==
    /\ policy' = p
    /\ EnqueueOrOverload
    /\ UNCHANGED <<hash, cleared, begun, job, form>>

\* scheduler_events.
Daily ==
    /\ begun + queue < MaxScans /\ queue' = queue + 1
    /\ UNCHANGED <<hash, cleared, begun, job, policy, form, fault>>

Init ==
    /\ hash = Absent /\ cleared = 0 /\ begun = 0
    /\ job = [j \in Jobs |-> Idle]
    /\ policy \in Policies /\ form = NoForm
    /\ queue = 0 /\ fault = FALSE

Next ==
    \/ \E j \in Jobs : StartScan(j) \/ Count(j) \/ Publish(j) \/ Die(j)
    \/ Evict \/ Daily
    \/ \E p \in Policies : Ask(p) \/ Save(p)

\* Some worker of the long queue takes what is queued, and a worker runs its
\* job to the end unless it dies.
Fairness ==
    /\ WF_vars(\E j \in Jobs : StartScan(j))
    /\ \A j \in Jobs : WF_vars(Count(j) \/ Publish(j))

Spec == Init /\ [][Next]_vars /\ Fairness

-----------------------------------------------------------------------------
(* Properties.                                                             *)

Results == [scan : Nat, begun : Nat]
Hashes == [epoch : Nat \ {0}, seq : Nat, result : [Policies -> Results]]
Scans ==
    [phase : {"scanning"}, epoch : Nat \ {0}, scan : Nat \ {0}, begun : Nat \ {0}]
    \cup [phase : {"counted"}, epoch : Nat \ {0}, scan : Nat \ {0}, begun : Nat \ {0},
          policy : Policies]

Shapes ==
    /\ hash \in Hashes \cup {Absent}
    /\ cleared \in Nat /\ begun \in Nat
    /\ job \in [Jobs -> Scans \cup {Idle}]
    /\ policy \in Policies
    /\ form \in [after : Nat, begun : Nat]
    /\ queue \in Nat /\ fault \in BOOLEAN

\* Every variable has its shape, and no number is published that the hash has
\* not given out.
TypeOK ==
    /\ Shapes
    /\ hash # Absent => \A p \in Policies : hash.result[p].scan <= hash.seq

\* The form stops polling only at a count that began after it asked, even when
\* the hash and its numbering were lost meanwhile (pollEnforcementPreview,
\* get_enforcement_preview_scan).
SettledIsNew ==
    hash # Absent /\ hash.result[policy].scan > form.after
        => hash.result[policy].begun > form.begun

\* Once a recount is queued, the hash gets a count of the policy that is saved
\* by then, later than the form asked, however scans overlap: unless one is lost
\* on the way, a worker or the hash with it, or a save finds the queue full.
\* The form sees it if it still looks (it polls ten times and then waits for a
\* reload); one that outlives the numbering it asked in may wait for nothing.
Settled == hash # Absent /\ hash.result[policy].scan > form.after
CountArrives == \A f \in BOOLEAN :
    queue > 0 /\ fault = f /\ form.after <= LastScan ~> Settled \/ fault # f

\* What the hash shows is what PreviewBoard promises.
Shown == IF hash = Absent THEN [p \in Policies |-> 0]
         ELSE [p \in Policies |-> hash.result[p].begun]
Board == INSTANCE PreviewBoard WITH floor <- cleared, shown <- Shown

\* Every step of the scans is one of the board or none at all: no scan
\* replaces a later one, none from before a flush is shown after it.
ImplementsBoard == Board!Spec
=============================================================================
