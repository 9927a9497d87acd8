------------------------- MODULE ToolBoundaryProofs -------------------------
(***************************************************************************)
(* Proofs about ToolBoundary, for any set of calls and any proxied subset. *)
(* IInv is inductive: where the wrapper of a call is, what is in the two   *)
(* pipes and what the host and the disk hold fit together, so that no late *)
(* message can contradict a record.  One lemma per handler shows that it   *)
(* keeps IInv.                                                             *)
(***************************************************************************)
EXTENDS ToolBoundary, TLAPS

Sent(type, c) == Msg(type, c) \in toHost
Due(type, c) == Msg(type, c) \in toChild

\* Where the wrapper of a call is tells what has happened to it.
Progress(c) ==
  /\ child[c] = "idle" =>
       /\ c \notin invoked /\ obs[c] = None
       /\ ledger[c] = "none" /\ receipt[c] = None
       /\ ~Sent("prepare", c)
  /\ child[c] \in {"asked", "granted"} =>
       c \notin invoked /\ obs[c] = None /\ receipt[c] = None
  /\ child[c] = "granted" => ledger[c] = "pending"
  /\ child[c] \in {"running", "viewing"} => c \in invoked
  /\ child[c] = "running" => obs[c] = None
  /\ child[c] = "viewing" => obs[c] = "view"
  /\ child[c] = "told" => obs[c] # None /\ ledger[c] # "none"
  /\ obs[c] = "view" => c \in invoked
  /\ obs[c] = "absent" => c \notin invoked

\* What the messages in the pipes presuppose.
Pipes(c) ==
  /\ Sent("prepare", c) => /\ child[c] \in {"asked", "left"}
                           /\ c \notin invoked /\ ledger[c] = "none"
  /\ Sent("prepare", c) => ~Due("prepared", c)
  /\ Due("prepared", c) => ledger[c] # "none"
  /\ Due("prepared", c) /\ child[c] = "asked" => ledger[c] = "pending"
  /\ Sent("execute", c) \/ Due("result", c) => c \in invoked
  /\ Sent("execute", c) => c \in Proxied /\ work[c] = "none"
  /\ Due("kept", c) => obs[c] # None
  /\ Sent("outcome", c) => obs[c] # None /\ ledger[c] # "none"

\* What the host knows of a proxied call.
Works(c) ==
  /\ work[c] # "none" => c \in invoked /\ c \in Proxied
  /\ c \in known => work[c] = "done"

\* A record has its origin, and an invoked call its intent.
Origin(c) ==
  /\ c \in invoked => ledger[c] # "none"
  /\ "absent" \in {ledger[c], receipt[c]} => obs[c] = "absent"
  /\ "view" \in {ledger[c], receipt[c]} => obs[c] = "view"
  /\ "raw" \in {ledger[c], receipt[c]} => work[c] = "done"

HasRecord(c) == ledger[c] \in Outcome \/ receipt[c] \in Outcome

\* An acknowledged outcome has a record.
Evidence(c) ==
  obs[c] = "view" /\ (Due("kept", c) \/ (child[c] = "left" /\ c \notin lost))
    => HasRecord(c)

Settled == life = "closed" => \A c \in Call : ledger[c] # "pending"

CallInv(c) == Progress(c) /\ Pipes(c) /\ Works(c) /\ Origin(c) /\ Evidence(c)

IInv == TypeOK /\ Settled /\ \A c \in Call : CallInv(c)
-----------------------------------------------------------------------------
\* Messages are equal when their kinds and calls are.
LEMMA MsgEqual ==
  \A t, u, c, d : Msg(t, c) = Msg(u, d) <=> t = u /\ c = d
BY DEF Msg

\* The invariant holds before the first call.
LEMMA InitIInv == Init => IInv
<1> SUFFICES ASSUME Init PROVE IInv
  OBVIOUS
<1> USE DEF Init
<1>1. TypeOK  BY BoundaryAssumption DEF TypeOK
<1>2. Settled  BY DEF Settled
<1>3. \A c \in Call : CallInv(c)
  BY BoundaryAssumption DEF CallInv, Progress, Pipes, Works, Origin, Evidence,
     HasRecord, Outcome, Sent, Due
<1> QED  BY <1>1, <1>2, <1>3 DEF IInv

\* Recording an outcome keeps the types of the stores.
LEMMA RecordTypes ==
  ASSUME TypeOK, NEW calls, NEW v \in Outcome, Record(calls, v)
  PROVE  /\ ledger' \in [Call -> {"none", "pending"} \cup Outcome]
         /\ receipt' \in [Call -> {None} \cup Outcome]
         /\ timer' \in BOOLEAN
<1>1. CASE disk = "up"
  BY <1>1 DEF TypeOK, Record
<1>2. CASE disk # "up"
  BY <1>2 DEF TypeOK, Record
<1> QED  BY <1>1, <1>2

\* A step that only consumes replies keeps the invariant.
LEMMA FewerRepliesStep ==
  ASSUME IInv, toChild' \subseteq toChild,
         UNCHANGED <<childVars, link, toHost, hostVars, stores>>
  PROVE  IInv'
<1>1. TypeOK'
  BY DEF IInv, TypeOK, childVars, hostVars, stores
<1>2. Settled'
  BY DEF IInv, Settled, stores
<1>3. ASSUME NEW d \in Call PROVE CallInv(d)'
  <2>0. TypeOK /\ Progress(d) /\ Pipes(d) /\ Works(d) /\ Origin(d) /\ Evidence(d)
    BY DEF IInv, CallInv
  <2>1. Progress(d)'  BY <2>0 DEF Progress, Sent, childVars, stores
  <2>2. Pipes(d)'  BY <2>0 DEF Pipes, Sent, Due, childVars, hostVars, stores
  <2>3. Works(d)'  BY <2>0 DEF Works, childVars, hostVars
  <2>4. Origin(d)'  BY <2>0 DEF Origin, childVars, hostVars, stores
  <2>5. Evidence(d)'  BY <2>0 DEF Evidence, HasRecord, Due, childVars, stores
  <2> QED  BY <2>1, <2>2, <2>3, <2>4, <2>5 DEF CallInv
<1> QED  BY <1>1, <1>2, <1>3 DEF IInv

-----------------------------------------------------------------------------
(* The steps of the subprocess *)

LEMMA AskIntentStep ==
  ASSUME IInv, NEW c \in Call, AskIntent(c)
  PROVE  IInv'
<1>1. TypeOK'
  BY DEF IInv, TypeOK, ToHost, Msg, AskIntent, hostVars, stores
<1>2. Settled'
  BY DEF IInv, Settled, AskIntent, stores
<1>3. ASSUME NEW d \in Call PROVE CallInv(d)'
  <2>0. TypeOK /\ Progress(d) /\ Pipes(d) /\ Works(d) /\ Origin(d) /\ Evidence(d)
    BY DEF IInv, CallInv
  <2>1. Progress(d)'
    BY <2>0, MsgEqual DEF Progress, ToHost, Sent, TypeOK, AskIntent, stores
  <2>2. Pipes(d)'
    BY <2>0, MsgEqual DEF Progress, Pipes, ToHost, Sent, Due, TypeOK,
       AskIntent, hostVars, stores
  <2>3. Works(d)'  BY <2>0 DEF Works, AskIntent, hostVars
  <2>4. Origin(d)'  BY <2>0 DEF Origin, AskIntent, hostVars, stores
  <2>5. Evidence(d)'  BY <2>0 DEF Evidence, HasRecord, Due, AskIntent, stores
  <2> QED  BY <2>1, <2>2, <2>3, <2>4, <2>5 DEF CallInv
<1> QED  BY <1>1, <1>2, <1>3 DEF IInv

LEMMA IntentGrantedStep ==
  ASSUME IInv, NEW c \in Call, IntentGranted(c)
  PROVE  IInv'
<1>1. TypeOK'
  BY DEF IInv, TypeOK, IntentGranted, hostVars, stores
<1>2. Settled'
  BY DEF IInv, Settled, IntentGranted, stores
<1>3. ASSUME NEW d \in Call PROVE CallInv(d)'
  <2>0. TypeOK /\ Progress(d) /\ Pipes(d) /\ Works(d) /\ Origin(d) /\ Evidence(d)
    BY DEF IInv, CallInv
  <2>1. Progress(d)'
    BY <2>0 DEF Progress, Pipes, Sent, Due, IntentGranted, stores
  <2>2. Pipes(d)'
    BY <2>0 DEF Pipes, Sent, Due, IntentGranted, hostVars, stores
  <2>3. Works(d)'  BY <2>0 DEF Works, IntentGranted, hostVars
  <2>4. Origin(d)'  BY <2>0 DEF Origin, IntentGranted, hostVars, stores
  <2>5. Evidence(d)'
    BY <2>0 DEF Evidence, HasRecord, Due, IntentGranted, stores
  <2> QED  BY <2>1, <2>2, <2>3, <2>4, <2>5 DEF CallInv
<1> QED  BY <1>1, <1>2, <1>3 DEF IInv

LEMMA IntentRefusedStep ==
  ASSUME IInv, NEW c \in Call, IntentRefused(c)
  PROVE  IInv'
<1>1. TypeOK'
  BY DEF IInv, TypeOK, IntentRefused, hostVars, stores
<1>2. Settled'
  BY DEF IInv, Settled, IntentRefused, stores
<1>3. ASSUME NEW d \in Call PROVE CallInv(d)'
  <2>0. TypeOK /\ Progress(d) /\ Pipes(d) /\ Works(d) /\ Origin(d) /\ Evidence(d)
    BY DEF IInv, CallInv
  <2>1. Progress(d)'  BY <2>0 DEF Progress, Sent, IntentRefused, stores
  <2>2. Pipes(d)'
    BY <2>0 DEF Pipes, Sent, Due, IntentRefused, hostVars, stores
  <2>3. Works(d)'  BY <2>0 DEF Works, IntentRefused, hostVars
  <2>4. Origin(d)'  BY <2>0 DEF Origin, IntentRefused, hostVars, stores
  <2>5. Evidence(d)'
    BY <2>0 DEF Progress, Evidence, HasRecord, Due, IntentRefused, stores
  <2> QED  BY <2>1, <2>2, <2>3, <2>4, <2>5 DEF CallInv
<1> QED  BY <1>1, <1>2, <1>3 DEF IInv

LEMMA GiveUpIntentStep ==
  ASSUME IInv, NEW c \in Call, GiveUpIntent(c)
  PROVE  IInv'
<1>1. TypeOK'
  BY DEF IInv, TypeOK, ToHost, Msg, Outcome, GiveUpIntent, Retain, hostVars
<1>2. Settled'
  BY DEF IInv, Settled, GiveUpIntent
<1>3. ASSUME NEW d \in Call PROVE CallInv(d)'
  <2>0. TypeOK /\ Progress(d) /\ Pipes(d) /\ Works(d) /\ Origin(d) /\ Evidence(d)
    BY DEF IInv, CallInv
  <2>1. Progress(d)'
    BY <2>0, MsgEqual DEF Progress, ToHost, Sent, TypeOK, GiveUpIntent, Retain
  <2>2. Pipes(d)'
    BY <2>0, MsgEqual DEF Progress, Pipes, ToHost, Sent, Due, GiveUpIntent,
       Retain, hostVars
  <2>3. Works(d)'  BY <2>0 DEF Works, GiveUpIntent, hostVars
  <2>4. Origin(d)'
    BY <2>0 DEF Progress, Origin, TypeOK, GiveUpIntent, Retain, hostVars
  <2>5. Evidence(d)'
    BY <2>0 DEF Progress, Evidence, HasRecord, Due, GiveUpIntent, Retain
  <2> QED  BY <2>1, <2>2, <2>3, <2>4, <2>5 DEF CallInv
<1> QED  BY <1>1, <1>2, <1>3 DEF IInv

LEMMA InvokeStep ==
  ASSUME IInv, NEW c \in Call, Invoke(c)
  PROVE  IInv'
<1>1. TypeOK'
  BY DEF IInv, TypeOK, ToHost, Msg, Invoke, hostVars, stores
<1>2. Settled'
  BY DEF IInv, Settled, Invoke, stores
<1>3. ASSUME NEW d \in Call PROVE CallInv(d)'
  <2>0. TypeOK /\ Progress(d) /\ Pipes(d) /\ Works(d) /\ Origin(d) /\ Evidence(d)
    BY DEF IInv, CallInv
  <2>1. Progress(d)'
    BY <2>0, MsgEqual, BoundaryAssumption DEF Progress, ToHost, Sent, TypeOK,
       Outcome, Invoke, stores
  <2>2. Pipes(d)'
    BY <2>0, MsgEqual DEF Progress, Pipes, Works, ToHost, Sent, Due, Invoke,
       hostVars, stores
  <2>3. Works(d)'  BY <2>0 DEF Works, Invoke, hostVars
  <2>4. Origin(d)'  BY <2>0 DEF Progress, Origin, Invoke, hostVars, stores
  <2>5. Evidence(d)'  BY <2>0 DEF Evidence, HasRecord, Due, Invoke, stores
  <2> QED  BY <2>1, <2>2, <2>3, <2>4, <2>5 DEF CallInv
<1> QED  BY <1>1, <1>2, <1>3 DEF IInv

LEMMA NotInvokedStep ==
  ASSUME IInv, NEW c \in Call, NotInvoked(c)
  PROVE  IInv'
<1>1. TypeOK'
  BY DEF IInv, TypeOK, ToHost, Msg, NotInvoked, hostVars, stores
<1>2. Settled'
  BY DEF IInv, Settled, NotInvoked, stores
<1>3. ASSUME NEW d \in Call PROVE CallInv(d)'
  <2>0. TypeOK /\ Progress(d) /\ Pipes(d) /\ Works(d) /\ Origin(d) /\ Evidence(d)
    BY DEF IInv, CallInv
  <2>1. Progress(d)'
    BY <2>0, MsgEqual, BoundaryAssumption DEF Progress, ToHost, Sent, TypeOK,
       Outcome, NotInvoked, stores
  <2>2. Pipes(d)'
    BY <2>0, MsgEqual, BoundaryAssumption DEF Progress, Pipes, ToHost, Sent,
       Due, TypeOK, Outcome, NotInvoked, hostVars, stores
  <2>3. Works(d)'  BY <2>0 DEF Works, NotInvoked, hostVars
  <2>4. Origin(d)'  BY <2>0 DEF Progress, Origin, NotInvoked, hostVars, stores
  <2>5. Evidence(d)'  BY <2>0 DEF Evidence, HasRecord, Due, NotInvoked, stores
  <2> QED  BY <2>1, <2>2, <2>3, <2>4, <2>5 DEF CallInv
<1> QED  BY <1>1, <1>2, <1>3 DEF IInv

LEMMA ReturnsStep ==
  ASSUME IInv, NEW c \in Call, Returns(c)
  PROVE  IInv'
<1>1. TypeOK'
  BY DEF IInv, TypeOK, Returns, hostVars, stores
<1>2. Settled'
  BY DEF IInv, Settled, Returns, stores
<1>3. ASSUME NEW d \in Call PROVE CallInv(d)'
  <2>0. TypeOK /\ Progress(d) /\ Pipes(d) /\ Works(d) /\ Origin(d) /\ Evidence(d)
    BY DEF IInv, CallInv
  <2>1. Progress(d)'  BY <2>0 DEF Progress, Sent, TypeOK, Returns, stores
  <2>2. Pipes(d)'
    BY <2>0 DEF Progress, Pipes, Sent, Due, Returns, hostVars, stores
  <2>3. Works(d)'  BY <2>0 DEF Works, Returns, hostVars
  <2>4. Origin(d)'  BY <2>0 DEF Progress, Origin, Returns, hostVars, stores
  <2>5. Evidence(d)'
    BY <2>0 DEF Progress, Pipes, Evidence, HasRecord, Due, Returns, stores
  <2> QED  BY <2>1, <2>2, <2>3, <2>4, <2>5 DEF CallInv
<1> QED  BY <1>1, <1>2, <1>3 DEF IInv

LEMMA InterruptedStep ==
  ASSUME IInv, NEW c \in Call, Interrupted(c)
  PROVE  IInv'
<1>1. TypeOK'
  BY DEF IInv, TypeOK, Interrupted, pipes, hostVars, stores
<1>2. Settled'
  BY DEF IInv, Settled, Interrupted, stores
<1>3. ASSUME NEW d \in Call PROVE CallInv(d)'
  <2>0. TypeOK /\ Progress(d) /\ Pipes(d) /\ Works(d) /\ Origin(d) /\ Evidence(d)
    BY DEF IInv, CallInv
  <2>1. Progress(d)'  BY <2>0 DEF Progress, Sent, Interrupted, pipes, stores
  <2>2. Pipes(d)'
    BY <2>0 DEF Pipes, Sent, Due, Interrupted, pipes, hostVars, stores
  <2>3. Works(d)'  BY <2>0 DEF Works, Interrupted, hostVars
  <2>4. Origin(d)'  BY <2>0 DEF Origin, Interrupted, hostVars, stores
  <2>5. Evidence(d)'
    BY <2>0, BoundaryAssumption DEF Progress, Evidence, HasRecord, Due,
       Outcome, Interrupted, pipes, stores
  <2> QED  BY <2>1, <2>2, <2>3, <2>4, <2>5 DEF CallInv
<1> QED  BY <1>1, <1>2, <1>3 DEF IInv

LEMMA TellStep ==
  ASSUME IInv, NEW c \in Call, Tell(c)
  PROVE  IInv'
<1>1. TypeOK'
  BY DEF IInv, TypeOK, ToHost, Msg, Tell, hostVars, stores
<1>2. Settled'
  BY DEF IInv, Settled, Tell, stores
<1>3. ASSUME NEW d \in Call PROVE CallInv(d)'
  <2>0. TypeOK /\ Progress(d) /\ Pipes(d) /\ Works(d) /\ Origin(d) /\ Evidence(d)
    BY DEF IInv, CallInv
  <2>1. Progress(d)'
    BY <2>0, MsgEqual, BoundaryAssumption DEF Progress, Origin, ToHost, Sent,
       Outcome, Tell, stores
  <2>2. Pipes(d)'
    BY <2>0, MsgEqual, BoundaryAssumption DEF Progress, Pipes, Origin, ToHost,
       Sent, Due, Outcome, Tell, hostVars, stores
  <2>3. Works(d)'  BY <2>0 DEF Works, Tell, hostVars
  <2>4. Origin(d)'  BY <2>0 DEF Origin, Tell, hostVars, stores
  <2>5. Evidence(d)'  BY <2>0 DEF Evidence, HasRecord, Due, Tell, stores
  <2> QED  BY <2>1, <2>2, <2>3, <2>4, <2>5 DEF CallInv
<1> QED  BY <1>1, <1>2, <1>3 DEF IInv

LEMMA OutcomeKeptStep ==
  ASSUME IInv, NEW c \in Call, OutcomeKept(c)
  PROVE  IInv'
<1>1. TypeOK'
  BY DEF IInv, TypeOK, OutcomeKept, hostVars, stores
<1>2. Settled'
  BY DEF IInv, Settled, OutcomeKept, stores
<1>3. ASSUME NEW d \in Call PROVE CallInv(d)'
  <2>0. TypeOK /\ Progress(d) /\ Pipes(d) /\ Works(d) /\ Origin(d) /\ Evidence(d)
    BY DEF IInv, CallInv
  <2>1. Progress(d)'  BY <2>0 DEF Progress, Sent, OutcomeKept, stores
  <2>2. Pipes(d)'  BY <2>0 DEF Pipes, Sent, Due, OutcomeKept, hostVars, stores
  <2>3. Works(d)'  BY <2>0 DEF Works, OutcomeKept, hostVars
  <2>4. Origin(d)'  BY <2>0 DEF Origin, OutcomeKept, hostVars, stores
  <2>5. Evidence(d)'  BY <2>0 DEF Evidence, HasRecord, Due, OutcomeKept, stores
  <2> QED  BY <2>1, <2>2, <2>3, <2>4, <2>5 DEF CallInv
<1> QED  BY <1>1, <1>2, <1>3 DEF IInv

\* Giving an outcome up retains it, whatever made the subprocess give it up.
LEMMA KeepOutcomeStep ==
  ASSUME IInv, NEW c \in Call, KeepOutcome(c), toChild' \subseteq toChild
  PROVE  IInv'
<1>1. TypeOK'
  BY DEF IInv, TypeOK, ToHost, Msg, Outcome, KeepOutcome, Retain, hostVars
<1>2. Settled'
  BY DEF IInv, Settled, KeepOutcome
<1>3. ASSUME NEW d \in Call PROVE CallInv(d)'
  <2>0. TypeOK /\ Progress(d) /\ Pipes(d) /\ Works(d) /\ Origin(d) /\ Evidence(d)
    BY DEF IInv, CallInv
  <2>1. Progress(d)'
    BY <2>0, MsgEqual DEF Progress, ToHost, Sent, KeepOutcome, Retain
  <2>2. Pipes(d)'
    BY <2>0, MsgEqual DEF Pipes, ToHost, Sent, Due, KeepOutcome, Retain,
       hostVars
  <2>3. Works(d)'  BY <2>0 DEF Works, KeepOutcome, hostVars
  <2>4. Origin(d)'  BY <2>0 DEF Origin, TypeOK, KeepOutcome, Retain, hostVars
  <2>5. Evidence(d)'
    BY <2>0 DEF Evidence, HasRecord, Due, Outcome, KeepOutcome, Retain
  <2> QED  BY <2>1, <2>2, <2>3, <2>4, <2>5 DEF CallInv
<1> QED  BY <1>1, <1>2, <1>3 DEF IInv

LEMMA GiveUpOutcomeStep ==
  ASSUME IInv, NEW c \in Call, GiveUpOutcome(c)
  PROVE  IInv'
BY KeepOutcomeStep DEF GiveUpOutcome

LEMMA OutcomeRefusedStep ==
  ASSUME IInv, NEW c \in Call, OutcomeRefused(c)
  PROVE  IInv'
<1>1. toChild' \subseteq toChild
  BY DEF OutcomeRefused
<1>2. CASE child[c] = "told"
  BY <1>1, <1>2, KeepOutcomeStep DEF OutcomeRefused
<1>3. CASE child[c] # "told"
  BY <1>1, <1>3, FewerRepliesStep DEF OutcomeRefused
<1> QED  BY <1>2, <1>3

LEMMA StopStep ==
  ASSUME IInv, Stop
  PROVE  IInv'
<1>1. TypeOK'
  BY BoundaryAssumption DEF IInv, TypeOK, ToHost, Msg, Outcome, Stop, Retain,
     hostVars
<1>2. Settled'
  BY DEF IInv, Settled, Stop
<1>3. ASSUME NEW d \in Call PROVE CallInv(d)'
  <2>0. TypeOK /\ Progress(d) /\ Pipes(d) /\ Works(d) /\ Origin(d) /\ Evidence(d)
    BY DEF IInv, CallInv
  <2>1. Progress(d)'
    BY <2>0, MsgEqual DEF Progress, ToHost, Sent, Stop, Retain
  <2>2. Pipes(d)'
    BY <2>0, MsgEqual DEF Progress, Pipes, ToHost, Sent, Due, Stop, Retain,
       hostVars
  <2>3. Works(d)'  BY <2>0 DEF Works, Stop, hostVars
  <2>4. Origin(d)'  BY <2>0 DEF Progress, Origin, Stop, Retain, hostVars
  <2>5. Evidence(d)'
    BY <2>0, BoundaryAssumption DEF Progress, Evidence, HasRecord, Due,
       Outcome, Stop, Retain
  <2> QED  BY <2>1, <2>2, <2>3, <2>4, <2>5 DEF CallInv
<1> QED  BY <1>1, <1>2, <1>3 DEF IInv

LEMMA DieStep ==
  ASSUME IInv, Die
  PROVE  IInv'
<1>1. TypeOK'
  BY DEF IInv, TypeOK, Die, hostVars, stores
<1>2. Settled'
  BY DEF IInv, Settled, Die, stores
<1>3. ASSUME NEW d \in Call PROVE CallInv(d)'
  <2>0. TypeOK /\ Progress(d) /\ Pipes(d) /\ Works(d) /\ Origin(d) /\ Evidence(d)
    BY DEF IInv, CallInv
  <2>1. Progress(d)'  BY <2>0 DEF Progress, Sent, Die, stores
  <2>2. Pipes(d)'  BY <2>0 DEF Pipes, Sent, Due, Die, hostVars, stores
  <2>3. Works(d)'  BY <2>0 DEF Works, Die, hostVars
  <2>4. Origin(d)'  BY <2>0 DEF Origin, Die, hostVars, stores
  <2>5. Evidence(d)'  BY <2>0 DEF Evidence, HasRecord, Due, Die, stores
  <2> QED  BY <2>1, <2>2, <2>3, <2>4, <2>5 DEF CallInv
<1> QED  BY <1>1, <1>2, <1>3 DEF IInv

-----------------------------------------------------------------------------
(* The steps of the host *)

LEMMA PrepareStep ==
  ASSUME IInv, NEW c \in Call, Prepare(c)
  PROVE  IInv'
<1>1. TypeOK'
  BY DEF IInv, TypeOK, ToChild, Msg, Prepare, FlushedLedger, FlushedReceipts,
     childVars, hostVars
<1>2. Settled'
  BY DEF IInv, Settled, Prepare, FlushedLedger
<1>3. ASSUME NEW d \in Call PROVE CallInv(d)'
  <2>0. TypeOK /\ Progress(d) /\ Pipes(d) /\ Works(d) /\ Origin(d) /\ Evidence(d)
    BY DEF IInv, CallInv
  <2>1. Progress(d)'
    BY <2>0 DEF Progress, Sent, TypeOK, Outcome, Prepare, FlushedLedger,
       FlushedReceipts, childVars
  <2>2. Pipes(d)'
    BY <2>0, MsgEqual DEF Progress, Pipes, ToChild, Sent, Due, TypeOK, Outcome,
       Prepare, FlushedLedger, childVars, hostVars
  <2>3. Works(d)'  BY <2>0 DEF Works, Prepare, childVars, hostVars
  <2>4. Origin(d)'
    BY <2>0, BoundaryAssumption DEF Origin, TypeOK, Outcome, Prepare,
       FlushedLedger, FlushedReceipts, childVars, hostVars
  <2>5. Evidence(d)'
    BY <2>0, MsgEqual DEF Progress, Pipes, Origin, Evidence, HasRecord,
       ToChild, Sent, Due, TypeOK, Prepare, FlushedLedger, FlushedReceipts,
       childVars
  <2> QED  BY <2>1, <2>2, <2>3, <2>4, <2>5 DEF CallInv
<1> QED  BY <1>1, <1>2, <1>3 DEF IInv

LEMMA CommitOutcomeStep ==
  ASSUME IInv, NEW c \in Call, CommitOutcome(c)
  PROVE  IInv'
<1>1. TypeOK'
  <2>1. obs[c] \in Outcome
    BY DEF IInv, CallInv, Pipes, Sent, TypeOK, Outcome, CommitOutcome
  <2>2. /\ ledger' \in [Call -> {"none", "pending"} \cup Outcome]
        /\ receipt' \in [Call -> {None} \cup Outcome]
        /\ timer' \in BOOLEAN
    BY <2>1, RecordTypes DEF IInv, CommitOutcome
  <2>3. known' \subseteq Proxied
    BY DEF IInv, TypeOK, CommitOutcome
  <2>4. toChild' \subseteq [type : {"prepared", "refused", "kept", "failed", "result"},
                           call : Call]
    BY DEF IInv, TypeOK, CommitOutcome, ToChild, Msg
  <2> QED
    BY <2>2, <2>4 DEF IInv, TypeOK, CommitOutcome, childVars
<1>2. Settled'
  BY DEF IInv, Settled, CommitOutcome, Record, Takes, Fits
<1>3. ASSUME NEW d \in Call PROVE CallInv(d)'
  <2>0. TypeOK /\ Progress(d) /\ Pipes(d) /\ Works(d) /\ Origin(d) /\ Evidence(d)
    BY DEF IInv, CallInv
  <2>1. Progress(d)'
    BY <2>0 DEF Progress, Pipes, Sent, TypeOK, CommitOutcome, Record, childVars
  <2>2. Pipes(d)'
    BY <2>0, MsgEqual DEF Progress, Pipes, ToChild, Sent, Due, TypeOK,
       CommitOutcome, Record, childVars
  <2>3. Works(d)'  BY <2>0 DEF Works, CommitOutcome, childVars
  <2>4. Origin(d)'
    BY <2>0 DEF Pipes, Origin, Sent, TypeOK, CommitOutcome, Record, childVars
  <2>5. Evidence(d)'
    BY <2>0, MsgEqual DEF Evidence, HasRecord, ToChild, Due, Outcome,
       CommitOutcome, Record, childVars
  <2> QED  BY <2>1, <2>2, <2>3, <2>4, <2>5 DEF CallInv
<1> QED  BY <1>1, <1>2, <1>3 DEF IInv

LEMMA ExecuteStep ==
  ASSUME IInv, NEW c \in Call, Execute(c)
  PROVE  IInv'
<1>1. TypeOK'
  BY DEF IInv, TypeOK, Execute, childVars, stores
<1>2. Settled'
  BY DEF IInv, Settled, Execute, stores
<1>3. ASSUME NEW d \in Call PROVE CallInv(d)'
  <2>0. TypeOK /\ Progress(d) /\ Pipes(d) /\ Works(d) /\ Origin(d) /\ Evidence(d)
    BY DEF IInv, CallInv
  <2>1. Progress(d)'  BY <2>0 DEF Progress, Sent, Execute, childVars, stores
  <2>2. Pipes(d)'  BY <2>0 DEF Pipes, Sent, Due, Execute, childVars, stores
  <2>3. Works(d)'  BY <2>0 DEF Pipes, Works, Sent, Execute, childVars
  <2>4. Origin(d)'  BY <2>0 DEF Pipes, Origin, Sent, Execute, childVars, stores
  <2>5. Evidence(d)'
    BY <2>0 DEF Evidence, HasRecord, Due, Execute, childVars, stores
  <2> QED  BY <2>1, <2>2, <2>3, <2>4, <2>5 DEF CallInv
<1> QED  BY <1>1, <1>2, <1>3 DEF IInv

LEMMA WorkEndsStep ==
  ASSUME IInv, NEW c \in Call, WorkEnds(c)
  PROVE  IInv'
<1>1. TypeOK'
  <2>1. c \in Proxied
    BY DEF IInv, CallInv, Works, WorkEnds
  <2>2. work' \in [Call -> {"none", "running", "cancelled", "done"}]
    BY DEF IInv, TypeOK, WorkEnds
  <2>3. CASE work[c] = "running"
    BY <2>1, <2>3 DEF IInv, TypeOK, WorkEnds, ToChild, Msg, childVars, stores
  <2>4. CASE work[c] = "cancelled"
    <3>1. CommitKnown({c})
      BY <2>4 DEF WorkEnds
    <3>2. /\ ledger' \in [Call -> {"none", "pending"} \cup Outcome]
          /\ receipt' \in [Call -> {None} \cup Outcome]
          /\ timer' \in BOOLEAN
      BY <3>1, RecordTypes DEF IInv, CommitKnown, Outcome
    <3>3. known' \subseteq Proxied
      BY <2>1, <3>1 DEF IInv, TypeOK, CommitKnown
    <3> QED
      BY <2>4, <3>2, <3>3 DEF IInv, TypeOK, WorkEnds, childVars, pipes
  <2> QED  BY <2>3, <2>4 DEF WorkEnds
<1>2. Settled'
  BY DEF IInv, Settled, WorkEnds, CommitKnown, Record, stores
<1>3. ASSUME NEW d \in Call PROVE CallInv(d)'
  <2>0. TypeOK /\ Progress(d) /\ Pipes(d) /\ Works(d) /\ Origin(d) /\ Evidence(d)
    BY DEF IInv, CallInv
  <2>1. Progress(d)'
    BY <2>0 DEF Progress, Works, Sent, WorkEnds, CommitKnown, Record,
       childVars, pipes, stores
  <2>2. Pipes(d)'
    BY <2>0, MsgEqual DEF Progress, Pipes, Works, ToChild, Sent, Due, TypeOK,
       WorkEnds, CommitKnown, Record, childVars, pipes, stores
  <2>3. Works(d)'  BY <2>0 DEF Works, TypeOK, WorkEnds, CommitKnown, childVars
  <2>4. Origin(d)'
    BY <2>0 DEF Origin, TypeOK, WorkEnds, CommitKnown, Record, childVars,
       stores
  <2>5. Evidence(d)'
    BY <2>0, MsgEqual DEF Evidence, HasRecord, ToChild, Due, Outcome, WorkEnds,
       CommitKnown, Record, childVars, pipes, stores
  <2> QED  BY <2>1, <2>2, <2>3, <2>4, <2>5 DEF CallInv
<1> QED  BY <1>1, <1>2, <1>3 DEF IInv

LEMMA WorkFailsStep ==
  ASSUME IInv, NEW c \in Call, WorkFails(c)
  PROVE  IInv'
<1>1. TypeOK'
  BY DEF IInv, TypeOK, ToChild, Msg, WorkFails, childVars, stores
<1>2. Settled'
  BY DEF IInv, Settled, WorkFails, stores
<1>3. ASSUME NEW d \in Call PROVE CallInv(d)'
  <2>0. TypeOK /\ Progress(d) /\ Pipes(d) /\ Works(d) /\ Origin(d) /\ Evidence(d)
    BY DEF IInv, CallInv
  <2>1. Progress(d)'  BY <2>0 DEF Progress, Sent, WorkFails, childVars, stores
  <2>2. Pipes(d)'
    BY <2>0, MsgEqual DEF Pipes, Works, ToChild, Sent, Due, WorkFails,
       childVars, stores
  <2>3. Works(d)'  BY <2>0 DEF Works, WorkFails, childVars
  <2>4. Origin(d)'  BY <2>0 DEF Origin, WorkFails, childVars, stores
  <2>5. Evidence(d)'
    BY <2>0, MsgEqual DEF Evidence, HasRecord, ToChild, Due, WorkFails,
       childVars, stores
  <2> QED  BY <2>1, <2>2, <2>3, <2>4, <2>5 DEF CallInv
<1> QED  BY <1>1, <1>2, <1>3 DEF IInv

LEMMA CancelStep ==
  ASSUME IInv, NEW c \in Call, Cancel(c)
  PROVE  IInv'
<1>1. TypeOK'
  <2>1. {c} \cap known \subseteq Proxied
    BY DEF IInv, CallInv, Works
  <2>2. /\ ledger' \in [Call -> {"none", "pending"} \cup Outcome]
        /\ receipt' \in [Call -> {None} \cup Outcome]
        /\ timer' \in BOOLEAN
    BY RecordTypes DEF IInv, Cancel, CommitKnown, Outcome
  <2>3. known' \subseteq Proxied
    BY DEF IInv, TypeOK, Cancel, CommitKnown
  <2>4. work' \in [Call -> {"none", "running", "cancelled", "done"}]
    BY DEF IInv, TypeOK, Cancel
  <2> QED
    BY <2>2, <2>3 DEF IInv, TypeOK, Cancel, childVars
<1>2. Settled'
  BY DEF IInv, Settled, Cancel, CommitKnown, Record
<1>3. ASSUME NEW d \in Call PROVE CallInv(d)'
  <2>0. TypeOK /\ Progress(d) /\ Pipes(d) /\ Works(d) /\ Origin(d) /\ Evidence(d)
    BY DEF IInv, CallInv
  <2>1. Progress(d)'
    BY <2>0 DEF Progress, Works, Sent, Cancel, CommitKnown, Record, childVars
  <2>2. Pipes(d)'
    BY <2>0 DEF Progress, Pipes, Works, Sent, Due, Cancel, CommitKnown, Record,
       childVars
  <2>3. Works(d)'  BY <2>0 DEF Works, Cancel, CommitKnown, childVars
  <2>4. Origin(d)'
    BY <2>0 DEF Works, Origin, Cancel, CommitKnown, Record, childVars
  <2>5. Evidence(d)'
    BY <2>0 DEF Evidence, HasRecord, Due, Outcome, Cancel, CommitKnown, Record,
       childVars
  <2> QED  BY <2>1, <2>2, <2>3, <2>4, <2>5 DEF CallInv
<1> QED  BY <1>1, <1>2, <1>3 DEF IInv

LEMMA AnnouncedStep ==
  ASSUME IInv, NEW c \in Call, Announced(c)
  PROVE  IInv'
<1>1. TypeOK'
  BY DEF IInv, TypeOK, Announced, childVars, stores
<1>2. Settled'
  BY DEF IInv, Settled, Announced, stores
<1>3. ASSUME NEW d \in Call PROVE CallInv(d)'
  <2>0. TypeOK /\ Progress(d) /\ Pipes(d) /\ Works(d) /\ Origin(d) /\ Evidence(d)
    BY DEF IInv, CallInv
  <2>1. Progress(d)'  BY <2>0 DEF Progress, Sent, Announced, childVars, stores
  <2>2. Pipes(d)'  BY <2>0 DEF Pipes, Sent, Due, Announced, childVars, stores
  <2>3. Works(d)'  BY <2>0 DEF Works, Announced, childVars
  <2>4. Origin(d)'  BY <2>0 DEF Origin, Announced, childVars, stores
  <2>5. Evidence(d)'
    BY <2>0 DEF Evidence, HasRecord, Due, Announced, childVars, stores
  <2> QED  BY <2>1, <2>2, <2>3, <2>4, <2>5 DEF CallInv
<1> QED  BY <1>1, <1>2, <1>3 DEF IInv

LEMMA AbortStep ==
  ASSUME IInv, Abort
  PROVE  IInv'
<1>1. TypeOK'
  <2>1. known \subseteq Proxied
    BY DEF IInv, TypeOK
  <2>2. /\ ledger' \in [Call -> {"none", "pending"} \cup Outcome]
        /\ receipt' \in [Call -> {None} \cup Outcome]
        /\ timer' \in BOOLEAN
    BY RecordTypes DEF IInv, Abort, CommitKnown, Outcome
  <2>3. known' \subseteq Proxied
    BY <2>1 DEF Abort, CommitKnown
  <2>4. work' \in [Call -> {"none", "running", "cancelled", "done"}]
    BY DEF IInv, TypeOK, Abort, CancelWork
  <2> QED
    BY <2>2, <2>3, <2>4 DEF IInv, TypeOK, Abort, childVars, pipes
<1>2. Settled'
  BY DEF IInv, Settled, Abort, CommitKnown, Record
<1>3. ASSUME NEW d \in Call PROVE CallInv(d)'
  <2>0. TypeOK /\ Progress(d) /\ Pipes(d) /\ Works(d) /\ Origin(d) /\ Evidence(d)
    BY DEF IInv, CallInv
  <2>1. Progress(d)'
    BY <2>0 DEF Progress, Works, Sent, Abort, CommitKnown, Record, childVars,
       pipes
  <2>2. Pipes(d)'
    BY <2>0 DEF Progress, Pipes, Works, Sent, Due, Abort, CancelWork,
       CommitKnown, Record, childVars, pipes
  <2>3. Works(d)'  BY <2>0 DEF Works, Abort, CancelWork, CommitKnown, childVars
  <2>4. Origin(d)'
    BY <2>0 DEF Works, Origin, Abort, CancelWork, CommitKnown, Record,
       childVars
  <2>5. Evidence(d)'
    BY <2>0 DEF Evidence, HasRecord, Due, Outcome, Abort, CommitKnown, Record,
       childVars, pipes
  <2> QED  BY <2>1, <2>2, <2>3, <2>4, <2>5 DEF CallInv
<1> QED  BY <1>1, <1>2, <1>3 DEF IInv

LEMMA DetachStep ==
  ASSUME IInv, Detach
  PROVE  IInv'
<1>1. TypeOK'
  <2>1. known \subseteq Proxied
    BY DEF IInv, TypeOK
  <2>2. /\ ledger' \in [Call -> {"none", "pending"} \cup Outcome]
        /\ receipt' \in [Call -> {None} \cup Outcome]
        /\ timer' \in BOOLEAN
    BY RecordTypes DEF IInv, Detach, CommitKnown, Outcome
  <2>3. known' \subseteq Proxied
    BY <2>1 DEF Detach, CommitKnown
  <2>4. work' \in [Call -> {"none", "running", "cancelled", "done"}]
    BY DEF IInv, TypeOK, Detach, CancelWork
  <2> QED
    BY <2>2, <2>3, <2>4 DEF IInv, TypeOK, Detach, childVars
<1>2. Settled'
  BY DEF IInv, Settled, Detach, CommitKnown, Record
<1>3. ASSUME NEW d \in Call PROVE CallInv(d)'
  <2>0. TypeOK /\ Progress(d) /\ Pipes(d) /\ Works(d) /\ Origin(d) /\ Evidence(d)
    BY DEF IInv, CallInv
  <2>1. Progress(d)'
    BY <2>0 DEF Progress, Works, Sent, Detach, CommitKnown, Record, childVars
  <2>2. Pipes(d)'  BY DEF Pipes, Sent, Due, Detach
  <2>3. Works(d)'
    BY <2>0 DEF Works, Detach, CancelWork, CommitKnown, childVars
  <2>4. Origin(d)'
    BY <2>0 DEF Works, Origin, Detach, CancelWork, CommitKnown, Record,
       childVars
  <2>5. Evidence(d)'
    BY <2>0 DEF Evidence, HasRecord, Due, Outcome, Detach, CommitKnown, Record,
       childVars
  <2> QED  BY <2>1, <2>2, <2>3, <2>4, <2>5 DEF CallInv
<1> QED  BY <1>1, <1>2, <1>3 DEF IInv

LEMMA TimerFiresStep ==
  ASSUME IInv, TimerFires
  PROVE  IInv'
<1>1. TypeOK'
  BY DEF IInv, TypeOK, TimerFires, FlushedLedger, FlushedReceipts, childVars,
     pipes
<1>2. Settled'
  BY DEF IInv, Settled, TimerFires, FlushedLedger
<1>3. ASSUME NEW d \in Call PROVE CallInv(d)'
  <2>0. TypeOK /\ Progress(d) /\ Pipes(d) /\ Works(d) /\ Origin(d) /\ Evidence(d)
    BY DEF IInv, CallInv
  <2>1. Progress(d)'
    BY <2>0 DEF Progress, Sent, TypeOK, Outcome, TimerFires, FlushedLedger,
       FlushedReceipts, childVars, pipes
  <2>2. Pipes(d)'
    BY <2>0 DEF Progress, Pipes, Sent, Due, TypeOK, Outcome, TimerFires,
       FlushedLedger, childVars, pipes
  <2>3. Works(d)'  BY <2>0 DEF Works, TimerFires, childVars
  <2>4. Origin(d)'
    BY <2>0, BoundaryAssumption DEF Origin, TypeOK, Outcome, TimerFires,
       FlushedLedger, FlushedReceipts, childVars
  <2>5. Evidence(d)'
    BY <2>0 DEF Progress, Origin, Evidence, HasRecord, Due, TypeOK, TimerFires,
       FlushedLedger, FlushedReceipts, childVars, pipes
  <2> QED  BY <2>1, <2>2, <2>3, <2>4, <2>5 DEF CallInv
<1> QED  BY <1>1, <1>2, <1>3 DEF IInv

LEMMA OtherPrepareStep ==
  ASSUME IInv, OtherPrepare
  PROVE  IInv'
<1>1. TypeOK'
  BY DEF IInv, TypeOK, OtherPrepare, FlushedLedger, FlushedReceipts, childVars,
     pipes, hostVars
<1>2. Settled'
  BY DEF IInv, Settled, OtherPrepare, FlushedLedger
<1>3. ASSUME NEW d \in Call PROVE CallInv(d)'
  <2>0. TypeOK /\ Progress(d) /\ Pipes(d) /\ Works(d) /\ Origin(d) /\ Evidence(d)
    BY DEF IInv, CallInv
  <2>1. Progress(d)'
    BY <2>0 DEF Progress, Sent, TypeOK, Outcome, OtherPrepare, FlushedLedger,
       FlushedReceipts, childVars, pipes
  <2>2. Pipes(d)'
    BY <2>0 DEF Progress, Pipes, Sent, Due, TypeOK, Outcome, OtherPrepare,
       FlushedLedger, childVars, pipes, hostVars
  <2>3. Works(d)'  BY <2>0 DEF Works, OtherPrepare, childVars, hostVars
  <2>4. Origin(d)'
    BY <2>0, BoundaryAssumption DEF Origin, TypeOK, Outcome, OtherPrepare,
       FlushedLedger, FlushedReceipts, childVars, hostVars
  <2>5. Evidence(d)'
    BY <2>0 DEF Progress, Origin, Evidence, HasRecord, Due, TypeOK,
       OtherPrepare, FlushedLedger, FlushedReceipts, childVars, pipes
  <2> QED  BY <2>1, <2>2, <2>3, <2>4, <2>5 DEF CallInv
<1> QED  BY <1>1, <1>2, <1>3 DEF IInv

LEMMA CompleteRunStep ==
  ASSUME IInv, CompleteRun
  PROVE  IInv'
<1>1. TypeOK'
  BY DEF IInv, TypeOK, CompleteRun, childVars, pipes, hostVars
<1>2. Settled'
  BY DEF Settled, CompleteRun
<1>3. ASSUME NEW d \in Call PROVE CallInv(d)'
  <2>0. TypeOK /\ Progress(d) /\ Pipes(d) /\ Works(d) /\ Origin(d) /\ Evidence(d)
    BY DEF IInv, CallInv
  <2>1. Progress(d)'  BY <2>0 DEF Progress, Sent, CompleteRun, childVars, pipes
  <2>2. Pipes(d)'
    BY <2>0 DEF Pipes, Sent, Due, CompleteRun, childVars, pipes, hostVars
  <2>3. Works(d)'  BY <2>0 DEF Works, CompleteRun, childVars, hostVars
  <2>4. Origin(d)'  BY <2>0 DEF Origin, CompleteRun, childVars, hostVars
  <2>5. Evidence(d)'
    BY <2>0 DEF Progress, Origin, Evidence, HasRecord, TypeOK, CompleteRun,
       childVars
  <2> QED  BY <2>1, <2>2, <2>3, <2>4, <2>5 DEF CallInv
<1> QED  BY <1>1, <1>2, <1>3 DEF IInv

LEMMA QuiesceStep ==
  ASSUME IInv, Quiesce
  PROVE  IInv'
<1>1. TypeOK'
  BY DEF IInv, TypeOK, Quiesce, childVars, pipes, stores
<1>2. Settled'
  BY DEF IInv, Settled, Quiesce, stores
<1>3. ASSUME NEW d \in Call PROVE CallInv(d)'
  <2>0. TypeOK /\ Progress(d) /\ Pipes(d) /\ Works(d) /\ Origin(d) /\ Evidence(d)
    BY DEF IInv, CallInv
  <2>1. Progress(d)'
    BY <2>0 DEF Progress, Sent, Quiesce, childVars, pipes, stores
  <2>2. Pipes(d)'
    BY <2>0 DEF Pipes, Sent, Due, Quiesce, childVars, pipes, stores
  <2>3. Works(d)'  BY <2>0 DEF Works, Quiesce, childVars
  <2>4. Origin(d)'  BY <2>0 DEF Origin, Quiesce, childVars, stores
  <2>5. Evidence(d)'
    BY <2>0 DEF Evidence, HasRecord, Due, Quiesce, childVars, pipes, stores
  <2> QED  BY <2>1, <2>2, <2>3, <2>4, <2>5 DEF CallInv
<1> QED  BY <1>1, <1>2, <1>3 DEF IInv

LEMMA CloseStep ==
  ASSUME IInv, Close
  PROVE  IInv'
<1>1. TypeOK'
  BY DEF IInv, TypeOK, Close, FlushedLedger, FlushedReceipts, childVars, pipes
<1>2. Settled'
  BY DEF IInv, Settled, Close, FlushedLedger
<1>3. ASSUME NEW d \in Call PROVE CallInv(d)'
  <2>0. TypeOK /\ Progress(d) /\ Pipes(d) /\ Works(d) /\ Origin(d) /\ Evidence(d)
    BY DEF IInv, CallInv
  <2>1. Progress(d)'
    BY <2>0 DEF Progress, Sent, TypeOK, Outcome, Close, FlushedLedger,
       FlushedReceipts, childVars, pipes
  <2>2. Pipes(d)'
    BY <2>0 DEF Progress, Pipes, Sent, Due, TypeOK, Outcome, Close,
       FlushedLedger, childVars, pipes
  <2>3. Works(d)'  BY <2>0 DEF Works, Close, childVars
  <2>4. Origin(d)'
    BY <2>0, BoundaryAssumption DEF Origin, TypeOK, Outcome, Close,
       FlushedLedger, FlushedReceipts, childVars
  <2>5. Evidence(d)'
    BY <2>0 DEF Progress, Origin, Evidence, HasRecord, Due, TypeOK, Close,
       FlushedLedger, FlushedReceipts, childVars, pipes
  <2> QED  BY <2>1, <2>2, <2>3, <2>4, <2>5 DEF CallInv
<1> QED  BY <1>1, <1>2, <1>3 DEF IInv

LEMMA RestartStep ==
  ASSUME IInv, Restart
  PROVE  IInv'
<1>1. TypeOK'
  BY DEF IInv, TypeOK, Restart, childVars
<1>2. Settled'
  BY DEF IInv, Settled, Restart
<1>3. ASSUME NEW d \in Call PROVE CallInv(d)'
  <2>0. TypeOK /\ Progress(d) /\ Pipes(d) /\ Works(d) /\ Origin(d) /\ Evidence(d)
    BY DEF IInv, CallInv
  <2>1. Progress(d)'  BY <2>0 DEF Progress, Sent, Restart, childVars
  <2>2. Pipes(d)'  BY DEF Pipes, Sent, Due, Restart
  <2>3. Works(d)'  BY <2>0 DEF Works, Restart, childVars
  <2>4. Origin(d)'  BY <2>0 DEF Origin, Restart, childVars
  <2>5. Evidence(d)'  BY <2>0 DEF Evidence, HasRecord, Due, Restart, childVars
  <2> QED  BY <2>1, <2>2, <2>3, <2>4, <2>5 DEF CallInv
<1> QED  BY <1>1, <1>2, <1>3 DEF IInv

LEMMA StorageChangesStep ==
  ASSUME IInv, StorageChanges
  PROVE  IInv'
<1>1. TypeOK'
  BY DEF IInv, TypeOK, StorageChanges, childVars, pipes, hostVars
<1>2. Settled'
  BY DEF IInv, Settled, StorageChanges
<1>3. ASSUME NEW d \in Call PROVE CallInv(d)'
  <2>0. TypeOK /\ Progress(d) /\ Pipes(d) /\ Works(d) /\ Origin(d) /\ Evidence(d)
    BY DEF IInv, CallInv
  <2>1. Progress(d)'
    BY <2>0 DEF Progress, Sent, StorageChanges, childVars, pipes
  <2>2. Pipes(d)'
    BY <2>0 DEF Pipes, Sent, Due, StorageChanges, childVars, pipes, hostVars
  <2>3. Works(d)'  BY <2>0 DEF Works, StorageChanges, childVars, hostVars
  <2>4. Origin(d)'  BY <2>0 DEF Origin, StorageChanges, childVars, hostVars
  <2>5. Evidence(d)'
    BY <2>0 DEF Evidence, HasRecord, Due, StorageChanges, childVars, pipes
  <2> QED  BY <2>1, <2>2, <2>3, <2>4, <2>5 DEF CallInv
<1> QED  BY <1>1, <1>2, <1>3 DEF IInv
-----------------------------------------------------------------------------
(* The theorems *)

LEMMA NextKeepsIInv == IInv /\ [Next]_vars => IInv'
<1> SUFFICES ASSUME IInv, [Next]_vars PROVE IInv'
  OBVIOUS
<1>1. CASE UNCHANGED vars
  BY <1>1, FewerRepliesStep DEF vars, pipes
<1>2. CASE ChildNext
  <2>1. CASE Stop \/ Die
    BY <2>1, StopStep, DieStep
  <2>2. CASE \E c \in Call :
               \/ AskIntent(c) \/ IntentGranted(c) \/ IntentRefused(c)
               \/ GiveUpIntent(c) \/ Invoke(c) \/ NotInvoked(c) \/ Returns(c)
               \/ Interrupted(c) \/ Tell(c) \/ OutcomeKept(c)
               \/ OutcomeRefused(c) \/ GiveUpOutcome(c)
    BY <2>2, AskIntentStep, IntentGrantedStep, IntentRefusedStep,
       GiveUpIntentStep, InvokeStep, NotInvokedStep, ReturnsStep,
       InterruptedStep, TellStep, OutcomeKeptStep, OutcomeRefusedStep,
       GiveUpOutcomeStep
  <2> QED  BY <1>2, <2>1, <2>2 DEF ChildNext
<1>3. CASE HostNext
  <2>1. CASE \E c \in Call :
               \/ Prepare(c) \/ CommitOutcome(c) \/ Execute(c) \/ WorkEnds(c)
               \/ WorkFails(c) \/ Cancel(c) \/ Announced(c)
    BY <2>1, PrepareStep, CommitOutcomeStep, ExecuteStep, WorkEndsStep,
       WorkFailsStep, CancelStep, AnnouncedStep
  <2>2. CASE \/ Abort \/ Detach \/ TimerFires \/ OtherPrepare \/ CompleteRun
             \/ Quiesce \/ Close \/ Restart
    BY <2>2, AbortStep, DetachStep, TimerFiresStep, OtherPrepareStep,
       CompleteRunStep, QuiesceStep, CloseStep, RestartStep
  <2> QED  BY <1>3, <2>1, <2>2 DEF HostNext
<1>4. CASE StorageChanges
  BY <1>4, StorageChangesStep
<1> QED  BY <1>1, <1>2, <1>3, <1>4 DEF Next

\* Every handler of the two processes keeps the invariant, whatever messages
\* are late.
THEOREM BoundaryInvariant == Spec => []IInv
<1>1. Init => IInv
  BY InitIInv
<1>2. IInv /\ [Next]_vars => IInv'
  BY NextKeepsIInv
<1> QED  BY <1>1, <1>2, PTL DEF Spec

\* Messages, records and wrappers have their types; no T2 goes without an
\* outcome.
THEOREM BoundaryTypeCorrect == Spec => []TypeOK
<1>1. IInv => TypeOK
  BY DEF IInv
<1> QED  BY <1>1, BoundaryInvariant, PTL

\* Neither the ledger nor a receipt says of a call what did not happen to it.
THEOREM RecordsSayWhatHappened == Spec => []RecordsAreTrue
<1>1. IInv => RecordsAreTrue
  <2> SUFFICES ASSUME IInv, NEW c \in Call
               PROVE  /\ c \in invoked => /\ ledger[c] # "none"
                                          /\ "absent" \notin {ledger[c], receipt[c]}
                      /\ "view" \in {ledger[c], receipt[c]} => obs[c] = "view"
                      /\ "raw" \in {ledger[c], receipt[c]} => work[c] = "done"
    BY DEF RecordsAreTrue
  <2> QED  BY DEF IInv, CallInv, Progress, Origin
<1> QED  BY <1>1, BoundaryInvariant, PTL

\* An observed outcome is in the ledger or in a receipt when the wrapper leaves,
\* unless its receipt could not be written.
THEOREM ObservedOutcomesAreKept == Spec => []ObservedIsKept
<1>1. IInv => ObservedIsKept
  <2> SUFFICES ASSUME IInv, NEW c \in Call \ lost,
                      child[c] = "left", obs[c] = "view"
               PROVE  \/ ledger[c] \in {"view", "raw"}
                      \/ receipt[c] \in {"view", "raw"}
    BY DEF ObservedIsKept
  <2>1. "absent" \notin {ledger[c], receipt[c]}
    BY DEF IInv, CallInv, Origin
  <2>2. HasRecord(c)
    BY DEF IInv, CallInv, Evidence
  <2> QED  BY <2>1, <2>2 DEF HasRecord, Outcome
<1> QED  BY <1>1, BoundaryInvariant, PTL

\* A closed run has the outcome of all it invoked, and no receipt is left that
\* could add one.
THEOREM ClosedRunsAreComplete == Spec => []ClosedRunIsComplete
<1>1. IInv => ClosedRunIsComplete
  <2> SUFFICES ASSUME IInv, life = "closed", NEW c \in Call
               PROVE  /\ c \in invoked => ledger[c] \in Outcome
                      /\ receipt[c] # None => ledger[c] # "pending"
    BY DEF ClosedRunIsComplete
  <2>1. ledger[c] # "pending"
    BY DEF IInv, Settled
  <2>2. c \in invoked => ledger[c] # "none"
    BY DEF IInv, CallInv, Origin
  <2> QED  BY <2>1, <2>2 DEF IInv, TypeOK
<1> QED  BY <1>1, BoundaryInvariant, PTL
=============================================================================
