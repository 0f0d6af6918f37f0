------------------------------- MODULE MCIpc -------------------------------
(***************************************************************************)
(* The instance of Ipc that TLC checks: PM (0), a driver (1) and a user    *)
(* process (2). All slots are taken at boot; forks reuse those of the dead.*)
(***************************************************************************)
EXTENDS Ipc

CONSTANTS PMTraps, SysTraps, NewTraps
    \* the calls of PM, of the other system processes, of a new one

(* A privilege structure may not send to itself, and users send to system  *)
(* processes only.                                                         *)
MCipc_to == [p \in 0..NR_PROCS |->
                IF p = USER THEN SysProcs ELSE (0..NR_PROCS) \ {p}]
MCtrap_mask == [p \in 0..NR_PROCS |->
    CASE p = USER -> {"SENDREC"} [] p = PM -> PMTraps
      [] p \in SysProcs \ {PM} -> SysTraps [] OTHER -> NewTraps]

(* What a process left behind in fields nobody reads before they are set   *)
(* again does not tell states apart.                                       *)
View ==
    LET is(p, flag) == flag \in pt.rts[p]
    IN  <<[pt EXCEPT
            !.getfrom = [p \in Slot |-> IF is(p, "RECEIVING") THEN @[p] ELSE ANY],
            !.sendto  = [p \in Slot |-> IF is(p, "SENDING") THEN @[p] ELSE ANY],
            !.reply   = [p \in Slot |-> is(p, "RECEIVING") /\ @[p]],
            !.dmsg    = [p \in Slot |-> IF Alive(p) THEN @[p].dst ELSE ANY],
            !.callerq = [p \in Slot |-> IF Alive(p) THEN @[p] ELSE <<>>],
            !.asyn    = [p \in Slot |-> Alive(p) /\ @[p]],
            !.notes   = [p \in Slot |-> IF p \in sys /\ Alive(p) THEN @[p] ELSE {}],
            !.tab     = [p \in Slot |-> SelectSeq(@[p], LAMBDA t : ~t.done)]],
          gen, sys>>
=============================================================================
