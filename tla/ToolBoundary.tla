---------------------------- MODULE ToolBoundary ----------------------------
(***************************************************************************)
(* How the outcomes of a run's tools reach the ledger.  The subprocess     *)
(* (pi-agent-server/src/index.ts) asks the host for T1 before it invokes a *)
(* tool and reports T2 after it; some tools run in the host.  The host     *)
(* (shared/src/agent/pi-agent.ts) commits both through the runtime API     *)
(* (server-core/src/durable-runtime/api/runtime.ts).  An outcome that      *)
(* cannot be committed is kept as a receipt file, which the receipt        *)
(* journal (receipt-journal.ts) tries again.  Either process may wait too  *)
(* long, be stopped, or die, and storage may fail.                         *)
(*                                                                         *)
(* A host handler runs to its end in one macrotask, so it is one action;   *)
(* the subprocess writes receipt files on its own, beside the host.        *)
(***************************************************************************)
EXTENDS Naturals, FiniteSets

CONSTANTS
  Call,     \* the tool calls of one run
  Proxied,  \* those whose implementation runs in the host
  None

\* What may be recorded of a call: that it was not dispatched, the view of its
\* result the subprocess made, or the result as the host saw it.
Outcome == {"absent", "view", "raw"}

ASSUME BoundaryAssumption ==
  Proxied \subseteq Call /\ None \notin Outcome

VARIABLES
  child,    \* how far the wrapper of a call in the subprocess has come
  obs,      \* the outcome of a call as the subprocess knows it
  invoked,  \* calls whose implementation was invoked (history)
  lost,     \* calls whose receipt the subprocess could not write (history)
  stopped,  \* the turn was stopped in the subprocess
  alive,    \* the subprocess runs
  link,     \* the host listens to it
  toHost,   \* messages in the pipe to the host
  toChild,  \* messages in the pipe to the subprocess
  work,     \* how far the host has come with a proxied call
  known,    \* calls of which the host holds a result that is not committed
  host,     \* up, draining or closed
  timer,    \* the retry timer of the receipt journal is set
  disk,     \* what storage takes: up, ledger_down or down
  life,     \* the run: open or closed
  ledger,   \* per call: none, pending (T1 without T2) or its outcome
  receipt   \* per call: the outcome in its receipt file

childVars == <<child, obs, invoked, lost, stopped, alive>>
pipes     == <<link, toHost, toChild>>
hostVars  == <<work, known, host, timer>>
stores    == <<disk, life, ledger, receipt>>
vars      == <<childVars, pipes, hostVars, stores>>

-----------------------------------------------------------------------------
(* Messages *)

Msg(type, c) == [type |-> type, call |-> c]

\* Messages of different calls commute, so a pipe is a set of messages.
ToHost(msgs)  == IF link THEN msgs ELSE {}
ToChild(msgs) == IF link /\ alive THEN msgs ELSE {}

-----------------------------------------------------------------------------
(* Receipts and the ledger *)

\* An outcome fits a call that has none, or the same one.
Fits(c, v) == ledger[c] \in {"pending", v}

\* What a flush leaves: it commits the receipts that fit, drops one of a call
\* that was never dispatched, and keeps what the ledger refuses.
Flushable(c) ==
  /\ receipt[c] # None
  /\ \/ Fits(c, receipt[c])
     \/ receipt[c] = "absent" /\ ledger[c] = "none"

FlushedLedger ==
  [c \in Call |-> IF disk = "up" /\ receipt[c] # None /\ ledger[c] = "pending"
                  THEN receipt[c] ELSE ledger[c]]

FlushedReceipts ==
  [c \in Call |-> IF disk = "up" /\ Flushable(c) THEN None ELSE receipt[c]]

\* Whether the API takes an outcome: it commits it, or defers it to a file when
\* the ledger fails, unless the file holds another outcome.
Takes(c, v) ==
  /\ host # "closed"
  /\ \/ disk = "up" /\ Fits(c, v)
     \/ disk = "ledger_down" /\ receipt[c] \in {None, v}

Record(calls, v) ==
  LET taken == {c \in calls : Takes(c, v)} IN
  IF disk = "up"
  THEN /\ ledger' = [c \in Call |-> IF c \in taken THEN v ELSE ledger[c]]
       /\ UNCHANGED <<receipt, timer>>
  ELSE /\ receipt' = [c \in Call |-> IF c \in taken THEN v ELSE receipt[c]]
       /\ timer' = (timer \/ taken # {})
       /\ UNCHANGED ledger

\* The subprocess writes the receipts of `calls` and announces them.
Retain(calls, v, others) ==
  LET kept == {c \in calls : disk # "down" /\ receipt[c] \in {None, v}} IN
  /\ receipt' = [c \in Call |-> IF c \in kept THEN v ELSE receipt[c]]
  /\ lost' = lost \cup (calls \ kept)
  /\ toHost' = toHost \cup ToHost({Msg("retained", c) : c \in kept} \cup others)

-----------------------------------------------------------------------------
(* Subprocess *)

Init ==
  /\ child = [c \in Call |-> "idle"] /\ obs = [c \in Call |-> None]
  /\ invoked = {} /\ lost = {} /\ stopped = FALSE
  /\ alive = TRUE /\ link = TRUE /\ toHost = {} /\ toChild = {}
  /\ work = [c \in Call |-> "none"] /\ known = {}
  /\ host = "up" /\ timer = FALSE /\ disk = "up"
  /\ life = "open"
  /\ ledger = [c \in Call |-> "none"] /\ receipt = [c \in Call |-> None]

AskIntent(c) ==
  /\ alive /\ ~stopped /\ child[c] = "idle"
  /\ child' = [child EXCEPT ![c] = "asked"]
  /\ toHost' = toHost \cup ToHost({Msg("prepare", c)})
  /\ UNCHANGED <<obs, invoked, lost, stopped, alive, link, toChild,
                 hostVars, stores>>

\* Seeded fault: the answer to an intent that was given up is believed.
IntentGrantedLate(c) ==
  /\ alive /\ Msg("prepared", c) \in toChild
  /\ toChild' = toChild \ {Msg("prepared", c)}
  /\ child' = IF child[c] \in {"asked", "left"}
              THEN [child EXCEPT ![c] = "granted"] ELSE child
  /\ UNCHANGED <<obs, invoked, lost, stopped, alive, link, toHost,
                 hostVars, stores>>

\* A reply to a request that was given up finds nobody waiting.
IntentGranted(c) ==
  /\ alive /\ Msg("prepared", c) \in toChild
  /\ toChild' = toChild \ {Msg("prepared", c)}
  /\ child' = IF child[c] = "asked" THEN [child EXCEPT ![c] = "granted"]
              ELSE child
  /\ UNCHANGED <<obs, invoked, lost, stopped, alive, link, toHost,
                 hostVars, stores>>

IntentRefused(c) ==
  /\ alive /\ Msg("refused", c) \in toChild
  /\ toChild' = toChild \ {Msg("refused", c)}
  /\ child' = IF child[c] = "asked" THEN [child EXCEPT ![c] = "left"]
              ELSE child
  /\ UNCHANGED <<obs, invoked, lost, stopped, alive, link, toHost,
                 hostVars, stores>>

\* Fifteen seconds without an answer: the call was not dispatched.
GiveUpIntent(c) ==
  /\ alive /\ child[c] = "asked"
  /\ child' = [child EXCEPT ![c] = "left"]
  /\ obs' = [obs EXCEPT ![c] = "absent"]
  /\ Retain({c}, "absent", {})
  /\ UNCHANGED <<invoked, stopped, alive, link, toChild, hostVars,
                 disk, life, ledger>>

Invoke(c) ==
  /\ alive /\ ~stopped /\ child[c] = "granted"
  /\ child' = [child EXCEPT ![c] = "running"]
  /\ invoked' = invoked \cup {c}
  /\ toHost' = toHost \cup ToHost({Msg("execute", c) : x \in {c} \cap Proxied})
  /\ UNCHANGED <<obs, lost, stopped, alive, link, toChild, hostVars, stores>>

\* The stop came with the answer: the absence of the effect is the outcome.
NotInvoked(c) ==
  /\ alive /\ stopped /\ child[c] = "granted"
  /\ child' = [child EXCEPT ![c] = "told"]
  /\ obs' = [obs EXCEPT ![c] = "absent"]
  /\ toHost' = toHost \cup ToHost({Msg("outcome", c)})
  /\ UNCHANGED <<invoked, lost, stopped, alive, link, toChild, hostVars, stores>>

\* The implementation returned or threw; the view of the result takes a while.
Returns(c) ==
  /\ alive /\ child[c] = "running"
  /\ \/ c \notin Proxied /\ UNCHANGED toChild
     \/ /\ Msg("result", c) \in toChild
        /\ toChild' = toChild \ {Msg("result", c)}
  /\ child' = [child EXCEPT ![c] = "viewing"]
  /\ obs' = [obs EXCEPT ![c] = "view"]
  /\ UNCHANGED <<invoked, lost, stopped, alive, link, toHost, hostVars, stores>>

\* Seeded fault: an interrupted call reports T2 with no outcome.
InterruptedReports(c) ==
  /\ alive /\ stopped /\ child[c] = "running"
  /\ child' = [child EXCEPT ![c] = "told"]
  /\ toHost' = toHost \cup ToHost({Msg("outcome", c)})
  /\ UNCHANGED <<obs, invoked, lost, stopped, alive, link, toChild,
                 hostVars, stores>>

\* A native implementation that gives up on the signal leaves T1 unanswered.
Interrupted(c) ==
  /\ alive /\ stopped /\ child[c] = "running"
  /\ child' = [child EXCEPT ![c] = "left"]
  /\ UNCHANGED <<obs, invoked, lost, stopped, alive, pipes, hostVars, stores>>

Tell(c) ==
  /\ alive /\ child[c] = "viewing"
  /\ child' = [child EXCEPT ![c] = "told"]
  /\ toHost' = toHost \cup ToHost({Msg("outcome", c)})
  /\ UNCHANGED <<obs, invoked, lost, stopped, alive, link, toChild,
                 hostVars, stores>>

OutcomeKept(c) ==
  /\ alive /\ Msg("kept", c) \in toChild
  /\ toChild' = toChild \ {Msg("kept", c)}
  /\ child' = IF child[c] = "told" THEN [child EXCEPT ![c] = "left"] ELSE child
  /\ UNCHANGED <<obs, invoked, lost, stopped, alive, link, toHost,
                 hostVars, stores>>

\* Refused, or no answer in fifteen seconds: the subprocess keeps it itself.
KeepOutcome(c) ==
  /\ child[c] = "told"
  /\ child' = [child EXCEPT ![c] = "left"]
  /\ Retain({c}, obs[c], {})
  /\ UNCHANGED <<obs, invoked, stopped, alive, link, hostVars,
                 disk, life, ledger>>

\* Seeded fault: an outcome that was refused is not retained.
OutcomeRefusedForgets(c) ==
  /\ alive /\ Msg("failed", c) \in toChild
  /\ toChild' = toChild \ {Msg("failed", c)}
  /\ child' = IF child[c] = "told" THEN [child EXCEPT ![c] = "left"] ELSE child
  /\ UNCHANGED <<obs, invoked, lost, stopped, alive, link, toHost,
                 hostVars, stores>>

OutcomeRefused(c) ==
  /\ alive /\ Msg("failed", c) \in toChild
  /\ toChild' = toChild \ {Msg("failed", c)}
  /\ IF child[c] = "told" THEN KeepOutcome(c)
     ELSE UNCHANGED <<childVars, link, toHost, hostVars, stores>>

GiveUpOutcome(c) == alive /\ KeepOutcome(c) /\ UNCHANGED toChild

\* A stop by the host or by the SDK, or the end of the pipe.  Requests for T1
\* are given up, and proxied calls are cancelled without waiting for them.
Stop ==
  LET waiting == {c \in Call : child[c] = "asked"}
      remote == {c \in Proxied : child[c] = "running"}
  IN
  /\ alive /\ ~stopped
  /\ stopped' = TRUE
  /\ child' = [c \in Call |-> IF c \in waiting \cup remote THEN "left"
                              ELSE child[c]]
  /\ obs' = [c \in Call |-> IF c \in waiting THEN "absent" ELSE obs[c]]
  /\ Retain(waiting, "absent", {Msg("cancel", c) : c \in remote})
  /\ UNCHANGED <<invoked, alive, link, toChild, hostVars, disk, life, ledger>>

Die ==
  /\ alive
  /\ alive' = FALSE
  /\ toChild' = {}
  /\ UNCHANGED <<child, obs, invoked, lost, stopped, link, toHost,
                 hostVars, stores>>

-----------------------------------------------------------------------------
(* Host *)

\* The receipts of the workspace are flushed before an intent is committed.
Prepare(c) ==
  LET granted == host = "up" /\ disk = "up" /\ life = "open" IN
  /\ Msg("prepare", c) \in toHost
  /\ toHost' = toHost \ {Msg("prepare", c)}
  /\ IF host = "up"
     THEN /\ ledger' = [d \in Call |-> IF d = c /\ granted THEN "pending"
                                       ELSE FlushedLedger[d]]
          /\ receipt' = FlushedReceipts
     ELSE UNCHANGED <<ledger, receipt>>
  /\ toChild' = toChild \cup
       ToChild({Msg(IF granted THEN "prepared" ELSE "refused", c)})
  /\ UNCHANGED <<childVars, link, hostVars, disk, life>>

CommitOutcome(c) ==
  /\ Msg("outcome", c) \in toHost
  /\ toHost' = toHost \ {Msg("outcome", c)}
  /\ Record({c}, obs[c])
  /\ known' = IF Takes(c, obs[c]) THEN known \ {c} ELSE known
  /\ toChild' = toChild \cup
       ToChild({Msg(IF Takes(c, obs[c]) THEN "kept" ELSE "failed", c)})
  /\ UNCHANGED <<childVars, link, work, host, disk, life>>

Execute(c) ==
  /\ Msg("execute", c) \in toHost
  /\ toHost' = toHost \ {Msg("execute", c)}
  /\ work' = [work EXCEPT ![c] = "running"]
  /\ UNCHANGED <<childVars, link, toChild, known, host, timer, stores>>

\* The host commits the results it holds of `calls`; what the API does not take
\* it goes on holding.
CommitKnown(calls) ==
  /\ Record(calls, "raw")
  /\ known' = (known \cup calls) \ {c \in calls : Takes(c, "raw")}

\* A result is held until the subprocess reports T2.  Nobody waits for the
\* result of a cancelled call, so it is committed as it is.
WorkEnds(c) ==
  \/ /\ work[c] = "running"
     /\ work' = [work EXCEPT ![c] = "done"]
     /\ known' = known \cup {c}
     /\ toChild' = toChild \cup ToChild({Msg("result", c)})
     /\ UNCHANGED <<childVars, link, toHost, host, timer, stores>>
  \/ /\ work[c] = "cancelled"
     /\ work' = [work EXCEPT ![c] = "done"]
     /\ CommitKnown({c})
     /\ UNCHANGED <<childVars, pipes, host, disk, life>>

\* An error is reported to the subprocess, and forgotten if it was cancelled.
WorkFails(c) ==
  /\ work[c] \in {"running", "cancelled"}
  /\ work' = [work EXCEPT ![c] = "done"]
  /\ toChild' = IF work[c] = "running"
                THEN toChild \cup ToChild({Msg("result", c)}) ELSE toChild
  /\ UNCHANGED <<childVars, link, toHost, known, host, timer, stores>>

\* The cancellation of a call follows its request through the pipe.
Cancel(c) ==
  /\ Msg("cancel", c) \in toHost /\ Msg("execute", c) \notin toHost
  /\ toHost' = toHost \ {Msg("cancel", c)}
  /\ work' = [work EXCEPT ![c] = IF @ = "running" THEN "cancelled" ELSE @]
  /\ CommitKnown({c} \cap known)
  /\ UNCHANGED <<childVars, link, toChild, host, disk, life>>

\* The journal watches for receipts it is told of.
Announced(c) ==
  /\ Msg("retained", c) \in toHost
  /\ toHost' = toHost \ {Msg("retained", c)}
  /\ timer' = \/ timer
              \/ host # "closed" /\ \E d \in Call : receipt[d] # None
  /\ UNCHANGED <<childVars, link, toChild, work, known, host, stores>>

CancelWork == [c \in Call |-> IF work[c] = "running" THEN "cancelled"
                              ELSE work[c]]

\* The user stops the turn: what the host works on is cancelled, and what it
\* holds is committed.
Abort ==
  /\ work' = CancelWork
  /\ CommitKnown(known)
  /\ UNCHANGED <<childVars, pipes, host, disk, life>>

\* The host gives the subprocess up or sees it exit: what is still in the pipes
\* is not read any more.
Detach ==
  /\ link
  /\ link' = FALSE /\ toHost' = {} /\ toChild' = {}
  /\ work' = CancelWork
  /\ CommitKnown(known)
  /\ UNCHANGED <<childVars, host, disk, life>>

\* Seeded fault: the timer is not set again.
TimerFiresOnce ==
  /\ timer
  /\ ledger' = FlushedLedger /\ receipt' = FlushedReceipts
  /\ timer' = FALSE
  /\ UNCHANGED <<childVars, pipes, work, known, host, disk, life>>

\* The timer retries, and is set again while receipts are left.
TimerFires ==
  /\ timer
  /\ ledger' = FlushedLedger /\ receipt' = FlushedReceipts
  /\ timer' = (\E c \in Call : receipt'[c] # None)
  /\ UNCHANGED <<childVars, pipes, work, known, host, disk, life>>

\* The intent of another run of the workspace flushes, too.
OtherPrepare ==
  /\ host = "up"
  /\ ledger' = FlushedLedger /\ receipt' = FlushedReceipts
  /\ UNCHANGED <<childVars, pipes, hostVars, disk, life>>

\* Seeded fault: a run is closed over effects that are unknown.
CompleteRunUnchecked ==
  /\ life = "open" /\ host # "closed" /\ disk = "up"
  /\ \A c \in Call : receipt[c] = None
  /\ life' = "closed"
  /\ UNCHANGED <<childVars, pipes, hostVars, disk, ledger, receipt>>

\* A run with a receipt or an unknown effect is parked, here a stutter.
CompleteRun ==
  /\ life = "open" /\ host # "closed" /\ disk = "up"
  /\ \A c \in Call : receipt[c] = None /\ ledger[c] # "pending"
  /\ life' = "closed"
  /\ UNCHANGED <<childVars, pipes, hostVars, disk, ledger, receipt>>

Quiesce ==
  /\ host = "up"
  /\ host' = "draining"
  /\ UNCHANGED <<childVars, pipes, work, known, timer, stores>>

Close ==
  /\ host = "draining"
  /\ host' = "closed" /\ timer' = FALSE
  /\ ledger' = FlushedLedger /\ receipt' = FlushedReceipts
  /\ UNCHANGED <<childVars, pipes, work, known, disk, life>>

\* The host process ends, in order or not, and starts again: the journal
\* watches, and the run is closed unless it has an unknown effect.  The
\* subprocess of the old process may go on for a while.
Restart ==
  /\ link' = FALSE /\ toHost' = {} /\ toChild' = {}
  /\ work' = [c \in Call |-> IF work[c] = "none" THEN "none" ELSE "done"]
  /\ known' = {} /\ host' = "up"
  /\ timer' = (\E c \in Call : receipt[c] # None)
  /\ life' = IF disk = "up" /\ \A c \in Call : ledger[c] # "pending"
             THEN "closed" ELSE life
  /\ UNCHANGED <<childVars, disk, ledger, receipt>>

StorageChanges ==
  /\ disk' \in {"up", "ledger_down", "down"} \ {disk}
  /\ UNCHANGED <<childVars, pipes, hostVars, life, ledger, receipt>>

-----------------------------------------------------------------------------
ChildNext ==
  \/ \E c \in Call :
       \/ AskIntent(c) \/ IntentGranted(c) \/ IntentRefused(c)
       \/ GiveUpIntent(c) \/ Invoke(c) \/ NotInvoked(c) \/ Returns(c)
       \/ Interrupted(c) \/ Tell(c) \/ OutcomeKept(c) \/ OutcomeRefused(c)
       \/ GiveUpOutcome(c)
  \/ Stop \/ Die

HostNext ==
  \/ \E c \in Call :
       \/ Prepare(c) \/ CommitOutcome(c) \/ Execute(c) \/ WorkEnds(c)
       \/ WorkFails(c) \/ Cancel(c) \/ Announced(c)
  \/ Abort \/ Detach \/ TimerFires \/ OtherPrepare \/ CompleteRun
  \/ Quiesce \/ Close \/ Restart

Next == ChildNext \/ HostNext \/ StorageChanges

Spec == Init /\ [][Next]_vars

\* The timer fires; nothing else is promised.
FairSpec == Spec /\ WF_vars(TimerFires)
-----------------------------------------------------------------------------
(* Properties *)

TypeOK ==
  /\ child \in [Call -> {"idle", "asked", "granted", "running", "viewing",
                         "told", "left"}]
  /\ obs \in [Call -> {None, "absent", "view"}]
  /\ invoked \subseteq Call /\ lost \subseteq Call /\ known \subseteq Proxied
  /\ stopped \in BOOLEAN /\ alive \in BOOLEAN /\ link \in BOOLEAN
  /\ toHost \subseteq [type : {"prepare", "outcome", "execute", "cancel",
                               "retained"}, call : Call]
  /\ toChild \subseteq [type : {"prepared", "refused", "kept", "failed",
                                "result"}, call : Call]
  /\ work \in [Call -> {"none", "running", "cancelled", "done"}]
  /\ host \in {"up", "draining", "closed"} /\ timer \in BOOLEAN
  /\ disk \in {"up", "ledger_down", "down"} /\ life \in {"open", "closed"}
  /\ ledger \in [Call -> {"none", "pending"} \cup Outcome]
  /\ receipt \in [Call -> {None} \cup Outcome]

\* Neither the ledger nor a receipt says anything of a call that did not
\* happen: an invoked call has its T1 and is never recorded as not dispatched,
\* a view is one the subprocess made, and a raw result one the host saw.
RecordsAreTrue ==
  \A c \in Call :
    /\ c \in invoked => ledger[c] # "none" /\ "absent" \notin {ledger[c], receipt[c]}
    /\ "view" \in {ledger[c], receipt[c]} => obs[c] = "view"
    /\ "raw" \in {ledger[c], receipt[c]} => work[c] = "done"

\* When the wrapper of a call leaves with an outcome, the ledger or a receipt
\* has one, whichever process was late, stopped or without storage; the one
\* exception is a receipt that could not be written.
ObservedIsKept ==
  \A c \in Call \ lost :
    child[c] = "left" /\ obs[c] = "view"
      => ledger[c] \in {"view", "raw"} \/ receipt[c] \in {"view", "raw"}

\* A closed run lacks nothing: what was invoked has an outcome, and no receipt
\* is left that could still add one.
ClosedRunIsComplete ==
  life = "closed" =>
    \A c \in Call : /\ c \in invoked => ledger[c] \in Outcome
                    /\ receipt[c] # None => ledger[c] # "pending"

\* A receipt the host knows of reaches the ledger once storage works and the
\* host is not shut down.
WatchedReceiptSettles ==
  <>[](disk = "up" /\ host # "closed")
    => \A c \in Call :
         timer /\ receipt[c] # None /\ ledger[c] = "pending"
           ~> ledger[c] \in Outcome
=============================================================================
