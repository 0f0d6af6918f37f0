----------------------------- MODULE MCSignals -----------------------------
(***************************************************************************)
(* The instance of Signals that TLC checks.                                *)
(***************************************************************************)
EXTENDS Signals

(* While its handler runs, signal 1 blocks SIGPROF; SIGPROF may come again *)
(* in its own handler, and its handler is installed for one time.          *)
MCSaMask == [s \in Sig |-> IF s = 1 THEN {SIGPROF} ELSE {}]
MCRequests ==
    {<<"pause", 0, {}>>, <<"sigsuspend", 0, {}>>, <<"sigprocmask", 0, {}>>, <<"block", 0, {1}>>,
     <<"catch", 1, {}>>, <<"catch", SIGPROF, {}>>, <<"SIG_IGN", 1, {}>>,
     <<"SIG_DFL", 1, {}>>, <<"kill", 1, {}>>, <<"setuid", 0, {}>>, <<"exit", 0, {}>>}
=============================================================================
