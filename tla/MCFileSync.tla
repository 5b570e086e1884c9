----------------------------- MODULE MCFileSync -----------------------------
(* The threads of the program around one file: the main loop, the worker    *)
(* and the watcher keep a buffer, its file and its draft in step under      *)
(* another program and a crash, and all threads end when the loop is left.  *)
(* The first state chooses which of the two moves.                          *)
EXTENDS FileSync, MainLoop

\* The order the handles leave their scope in.
MCJoined == <<"search", "pty", "git", "fs">>

\* The messages under way that the human may add one to.
MCUnderWay == 3

VARIABLE moving
mcVars == <<moving, vars, loopVars>>

\* The texts are alike, so the file starts with one of them.
MCInit ==
  /\ moving \in {"file", "loop"}
  /\ Init /\ disk = CHOOSE t \in Text : TRUE
  /\ LoopInit
\* The properties say nothing of the steps after a re-read has done harm.
MCNext ==
  /\ moving' = moving
  /\ \/ moving = "file" /\ Next /\ {} \in {harm, harm'}
        /\ (Human => Len(queue') + Len(events') <= MCUnderWay) /\ UNCHANGED loopVars
     \/ moving = "loop" /\ LoopNext /\ UNCHANGED vars
\* The one that rests has no step enabled, so its fairness asks for nothing.
MCSpec == MCInit /\ [][MCNext]_mcVars /\ Fairness /\ LoopFairness
=============================================================================
