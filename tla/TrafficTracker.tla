---------------------------- MODULE TrafficTracker ----------------------------
(***************************************************************************)
(* The per-user traffic accumulator (adapters/traffic_tracker.py): polls   *)
(* the byte counters of the VPN runtime, which start again from zero with  *)
(* the runtime, adds their growth to totals and saves these to disk.       *)
(*                                                                         *)
(* _poll_once awaits only the runtime's answer: what it does with the      *)
(* answer, and the flush behind it, run without a suspension and are one   *)
(* step.  reset_user, restarts of either process and traffic interleave    *)
(* with the poll.  Operators named Bug... are faulty variants of the       *)
(* definition below them (README).                                         *)
(***************************************************************************)
EXTENDS Naturals

CONSTANTS
    Users,
    MaxBytes,           \* bound: traffic of a user in one direction
    MaxRuntimeRestarts, \* bound: restarts of the runtime that lose counters
    MaxApiRestarts,     \* bound: restarts of the API process
    MaxWriteErrors      \* bound: failed writes of traffic.json

ASSUME BoundsAssumption ==
    /\ MaxBytes \in Nat /\ MaxRuntimeRestarts \in Nat
    /\ MaxApiRestarts \in Nat /\ MaxWriteErrors \in Nat

Dirs == {"upload", "download"}
Counts == [Users -> [Dirs -> Nat]]
Zero == [u \in Users |-> [d \in Dirs |-> 0]]

VARIABLES
    installed,      \* users the runtime serves
    live,           \* the runtime's counters
    carried,        \* history: what users sent before the runtime last started
    epoch,          \* history: restarts of the runtime
    resetting,      \* users deleted by a request that has yet to call reset_user
    known,          \* keys of _totals
    totals,         \* _totals, 0 for an unknown user
    last,           \* _live_last, 0 for an absent user
    lastEpoch,      \* history: the epoch last[u] was read in
    lastCarried,    \* history: carried[u] in that epoch
    dirty,          \* _dirty
    due,            \* PERSIST_INTERVAL has passed since the last flush
    available,      \* _available
    phase,          \* where the poller is suspended
    reading,        \* the runtime's answer, until the poller resumes
    disk,           \* traffic.json
    apiRestarts,
    writeErrors,
    recounted       \* history: counters the API lost its baseline for

runtime == <<installed, live, carried, epoch>>
baseline == <<last, lastEpoch, lastCarried>>
faults == <<apiRestarts, writeErrors, recounted>>
vars == <<runtime, resetting, known, totals, baseline, dirty, due, available,
          phase, reading, disk, faults>>

NoReading == [users |-> {}, counts |-> Zero, carried |-> Zero, epoch |-> 0]
Plus(f, g) == [u \in Users |-> [d \in Dirs |-> f[u][d] + g[u][d]]]

Init ==
    /\ installed = {}
    /\ live = Zero
    /\ carried = Zero
    /\ epoch = 0
    /\ resetting = {}
    /\ known = {}
    /\ totals = Zero
    /\ last = Zero
    /\ lastEpoch = [u \in Users |-> 0]
    /\ lastCarried = Zero
    /\ dirty = FALSE
    /\ due = TRUE
    /\ available = FALSE
    /\ phase = "sleep"
    /\ reading = NoReading
    /\ disk = [known |-> {}, totals |-> Zero]
    /\ apiRestarts = 0
    /\ writeErrors = 0
    /\ recounted = Zero

-----------------------------------------------------------------------------
(* The runtime and the requests that restart it.                           *)

Traffic(u, d) ==
    /\ u \in installed
    /\ live[u][d] + carried[u][d] < MaxBytes
    /\ live' = [live EXCEPT ![u][d] = @ + 1]
    /\ UNCHANGED <<installed, carried, epoch, resetting, known, totals, baseline,
                   dirty, due, available, phase, reading, disk, faults>>

RestartRuntime ==
    /\ epoch < MaxRuntimeRestarts
    /\ epoch' = epoch + 1
    /\ carried' = Plus(carried, live)
    /\ live' = Zero
    /\ UNCHANGED <<known, totals, baseline, dirty, due, available, phase, reading,
                   disk, faults>>

ContainerRestart == RestartRuntime /\ UNCHANGED <<installed, resetting>>

\* A commit that installs a user; the mutation lock keeps commits apart from
\* a deletion that has yet to resume.
CreateUser(u) ==
    /\ u \notin installed /\ resetting = {}
    /\ installed' = installed \union {u}
    /\ RestartRuntime
    /\ UNCHANGED resetting

\* DELETE /user commits, restarting the runtime in a thread, and resets the
\* counters when it resumes.
DeleteUser(u) ==
    /\ u \in installed /\ resetting = {}
    /\ installed' = installed \ {u}
    /\ resetting' = resetting \union {u}
    /\ RestartRuntime

BugKeepsBaseline(u) ==
    /\ u \in resetting
    /\ resetting' = resetting \ {u}
    /\ known' = known \ {u}
    /\ totals' = [totals EXCEPT ![u] = Zero[u]]
    /\ dirty' = (dirty \/ u \in known)
    /\ UNCHANGED <<runtime, baseline, due, available, phase, reading, disk, faults>>

ResetUser(u) ==
    /\ u \in resetting
    /\ resetting' = resetting \ {u}
    /\ known' = known \ {u}
    /\ totals' = [totals EXCEPT ![u] = Zero[u]]
    /\ last' = [last EXCEPT ![u] = Zero[u]]
    /\ dirty' = (dirty \/ u \in known)
    /\ UNCHANGED <<runtime, lastEpoch, lastCarried, due, available, phase, reading,
                   disk, faults>>

-----------------------------------------------------------------------------
(* The poller.                                                             *)

PollStart ==
    /\ phase = "sleep"
    /\ phase' = "asked"
    /\ UNCHANGED <<runtime, resetting, known, totals, baseline, dirty, due, available,
                   reading, disk, faults>>

\* The runtime reports every user with traffic, and idle ones or not.
Answer ==
    /\ phase = "asked"
    /\ \E users \in SUBSET installed :
          /\ \A u \in installed : live[u] # Zero[u] => u \in users
          /\ reading' = [users |-> users, counts |-> live,
                         carried |-> carried, epoch |-> epoch]
    /\ phase' = "answered"
    /\ UNCHANGED <<runtime, resetting, known, totals, baseline, dirty, due, available,
                   disk, faults>>

BugForgetsChanges(k, t, changed) ==
    /\ dirty' = FALSE
    /\ IF changed /\ due
       THEN due' = FALSE /\ disk' = [known |-> k, totals |-> t]
       ELSE UNCHANGED <<disk, due>>
    /\ UNCHANGED writeErrors

\* _flush_state: nothing unless changes wait and the interval has passed.  The
\* changes count as saved before they are written, and stay so if that fails.
Flush(k, t, changed) ==
    \/ /\ ~(changed /\ due)
       /\ dirty' = changed
       /\ UNCHANGED <<disk, due, writeErrors>>
    \/ /\ changed /\ due
       /\ dirty' = FALSE
       /\ due' = FALSE
       /\ \/ disk' = [known |-> k, totals |-> t] /\ UNCHANGED writeErrors
          \/ /\ writeErrors < MaxWriteErrors
             /\ writeErrors' = writeErrors + 1
             /\ UNCHANGED disk

BugNoBaseline(u) == Zero[u]

\* A counter below the one last seen means the runtime started again.
Prev(u) ==
    IF \E d \in Dirs : reading.counts[u][d] < last[u][d] THEN Zero[u] ELSE last[u]

Delta(u, d) == reading.counts[u][d] - Prev(u)[d]

\* A user reported for the first time is recorded, traffic or not.
PollChanges ==
    \E u \in reading.users : u \notin known \/ \E d \in Dirs : Delta(u, d) # 0

PollApplied ==
    /\ phase = "answered"
    /\ known' = known \union reading.users
    /\ totals' = [u \in Users |-> IF u \in reading.users
                                  THEN [d \in Dirs |-> totals[u][d] + Delta(u, d)]
                                  ELSE totals[u]]
    /\ last' = [u \in Users |-> IF u \in reading.users
                                THEN reading.counts[u] ELSE last[u]]
    /\ lastEpoch' = [u \in Users |-> IF u \in reading.users
                                     THEN reading.epoch ELSE lastEpoch[u]]
    /\ lastCarried' = [u \in Users |-> IF u \in reading.users
                                       THEN reading.carried[u] ELSE lastCarried[u]]
    /\ available' = TRUE
    /\ Flush(known', totals', dirty \/ PollChanges)
    /\ phase' = "sleep"
    /\ reading' = NoReading
    /\ UNCHANGED <<runtime, resetting, apiRestarts, recounted>>

BugPollerDies ==
    /\ phase # "sleep"
    /\ phase' = "dead"
    /\ UNCHANGED <<runtime, resetting, known, totals, baseline, dirty, due, available,
                   reading, disk, faults>>

\* The statistics service is unreachable, times out or answers nonsense.
PollFails ==
    /\ phase # "sleep"
    /\ available' = FALSE
    /\ Flush(known, totals, dirty)
    /\ phase' = "sleep"
    /\ reading' = NoReading
    /\ UNCHANGED <<runtime, resetting, known, totals, baseline, apiRestarts, recounted>>

IntervalPasses ==
    /\ ~due
    /\ due' = TRUE
    /\ UNCHANGED <<runtime, resetting, known, totals, baseline, dirty, available, phase,
                   reading, disk, faults>>

-----------------------------------------------------------------------------
(* Restarts of the API process.                                            *)

\* __init__ and _load_state: totals come back, the baseline does not.
Boot(saved) ==
    /\ apiRestarts < MaxApiRestarts
    /\ apiRestarts' = apiRestarts + 1
    /\ known' = saved.known
    /\ totals' = saved.totals
    /\ last' = Zero
    /\ lastEpoch' = [u \in Users |-> epoch]
    /\ lastCarried' = carried
    /\ recounted' = Plus(recounted, live)
    /\ dirty' = FALSE
    /\ due' = TRUE
    /\ available' = FALSE
    /\ phase' = "sleep"
    /\ reading' = NoReading
    /\ resetting' = {}
    /\ UNCHANGED runtime

ApiCrash == Boot(disk) /\ UNCHANGED <<disk, writeErrors>>

\* The server answers its requests first; stop() waits for a poll and flushes.
ApiStop ==
    /\ phase = "sleep" /\ resetting = {}
    /\ \/ disk' = [known |-> known, totals |-> totals] /\ UNCHANGED writeErrors
       \/ /\ writeErrors < MaxWriteErrors
          /\ writeErrors' = writeErrors + 1
          /\ UNCHANGED disk
    /\ Boot(disk')

-----------------------------------------------------------------------------

Next ==
    \/ \E u \in Users :
          \/ \E d \in Dirs : Traffic(u, d)
          \/ CreateUser(u) \/ DeleteUser(u) \/ ResetUser(u)
    \/ ContainerRestart
    \/ PollStart \/ Answer \/ PollApplied \/ PollFails \/ IntervalPasses
    \/ ApiCrash \/ ApiStop

Spec == Init /\ [][Next]_vars

\* The poller's loop never ends by itself, time passes, and a runtime asked
\* again and again answers in time again and again.
FairSpec ==
    /\ Spec
    /\ WF_vars(PollStart)
    /\ WF_vars(IntervalPasses)
    /\ WF_vars(Answer \/ PollApplied \/ PollFails)
    /\ SF_vars(Answer)
    /\ SF_vars(PollApplied)

-----------------------------------------------------------------------------
(* Properties.                                                             *)

TypeOK ==
    /\ installed \subseteq Users
    /\ live \in Counts /\ carried \in Counts
    /\ epoch \in Nat
    /\ resetting \subseteq Users
    /\ known \subseteq Users
    /\ totals \in Counts /\ last \in Counts
    /\ lastEpoch \in [Users -> Nat]
    /\ lastCarried \in Counts
    /\ dirty \in BOOLEAN /\ due \in BOOLEAN /\ available \in BOOLEAN
    /\ phase \in {"sleep", "asked", "answered"}
    /\ reading \in [users : SUBSET Users, counts : Counts, carried : Counts, epoch : Nat]
    /\ disk \in [known : SUBSET Users, totals : Counts]
    /\ apiRestarts \in Nat /\ writeErrors \in Nat
    /\ recounted \in Counts

\* However polls, resets and restarts fall, a user's total exceeds what the
\* user really sent by no more than what the runtime had counted each time the
\* API lost its baseline: with no API restart, not at all.
OvercountIsBounded ==
    \A u \in Users, d \in Dirs :
        totals[u][d] <= carried[u][d] + live[u][d] + recounted[u][d]

\* The baseline never runs ahead of the totals: what a later poll subtracts has
\* been added before, also for a user deleted and created again.
BaselineIsCounted ==
    \A u \in Users, d \in Dirs : last[u][d] <= totals[u][d]

\* What the runtime counted reaches the totals, or the counter is gone.
EventuallyCounted ==
    \A u \in Users, d \in Dirs : \A n \in 1 .. MaxBytes :
        live[u][d] = n ~> totals[u][d] >= n \/ live[u][d] < n

\* README: totals are periodically persisted.  A failed write is not repeated:
\* it takes a later change to save its totals.
EventuallyPersisted ==
    \A u \in Users, d \in Dirs : \A n \in 1 .. MaxBytes :
        totals[u][d] = n
            ~> disk.totals[u][d] >= n \/ totals[u][d] < n \/ writeErrors > 0

-----------------------------------------------------------------------------
(* The inductive invariant behind OvercountIsBounded.  A reading is worth    *)
(* carried + counts, what the user had sent when it was taken.             *)

\* Counters read in this epoch have only grown; older ones are carried.
Grounded(u, d, counts, base, when) ==
    /\ when <= epoch
    /\ when = epoch => base = carried[u][d] /\ counts <= live[u][d]
    /\ when < epoch => base + counts <= carried[u][d]

\* The pending reading is not older than the baseline it will replace.
Ordered(u, d) ==
    /\ lastEpoch[u] <= reading.epoch
    /\ lastEpoch[u] = reading.epoch =>
          /\ lastCarried[u][d] = reading.carried[u][d]
          /\ last[u][d] <= reading.counts[u][d]
    /\ lastEpoch[u] < reading.epoch =>
          lastCarried[u][d] + last[u][d] <= reading.carried[u][d]

Accounted(u, d) ==
    /\ totals[u][d] <= lastCarried[u][d] + last[u][d] + recounted[u][d]
    /\ last[u][d] <= totals[u][d]
    /\ disk.totals[u][d] <= carried[u][d] + live[u][d] + recounted[u][d]
    /\ Grounded(u, d, last[u][d], lastCarried[u][d], lastEpoch[u])
    /\ phase = "answered" =>
          /\ Grounded(u, d, reading.counts[u][d], reading.carried[u][d], reading.epoch)
          /\ Ordered(u, d)

IInv == TypeOK /\ \A u \in Users, d \in Dirs : Accounted(u, d)
=============================================================================
