-------------------------- MODULE MCToolScheduler --------------------------
(***************************************************************************)
(* The constants the runs of ToolScheduler take.                           *)
(***************************************************************************)
EXTENDS DrainLoop, TLC

CONSTANTS t1, t2,          \* turns
          c1, c2, c3, c4   \* calls

File(kind, path) == [kind |-> kind, path |-> path]
Other(kind) == [kind |-> kind, path |-> <<>>]

\* A script that writes a file, a read of the file's directory beside it, and
\* in the next turn a shell command.
MixedTools ==
  c1 :> Other("codemode") @@ c2 :> File("file_write", <<"d", "f">>)
  @@ c3 :> File("file_read", <<"d">>) @@ c4 :> Other("opaque")
LastTurnApart == [c \in Call |-> IF c = c4 THEN t2 ELSE t1]
ScriptParent == [c \in Call |-> IF c = c2 THEN c1 ELSE None]
=============================================================================
