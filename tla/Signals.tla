------------------------------ MODULE Signals ------------------------------
(***************************************************************************)
(* The life of a signal. It is caused in the kernel by a virtual timer or  *)
(* a kernel call (cause_sig() in kernel/system.c) or in PM by kill(). PM   *)
(* fetches kernel signals with sys_getksig(), decides what to do           *)
(* (servers/pm/signal.c), and stops a process that catches the signal, has *)
(* FS interrupt its call, sets up the handler, and lets it go on.          *)
(*                                                                         *)
(* PM's functions make kernel calls, and other processes, FS, the clock    *)
(* interrupt and kernel calls of other servers come in between. What PM    *)
(* still has to do before it receives again is the sequence todo: a step   *)
(* of PM does the first entry, up to and with one kernel call. A kernel    *)
(* call that the clock interrupt can split is several entries.             *)
(*                                                                         *)
(* One record, st, holds, by process:                                      *)
(*   rts         p_rts_flags          flags       mp_flags                 *)
(*   pending     p_pending            sigpending  mp_sigpending            *)
(*   delay       MF_SIG_DELAY         sigmask     mp_sigmask               *)
(*   timer       MF_PROF_TIMER        catch, ignore  mp_catch, mp_ignore   *)
(*   call        the message sent     fs          PM's request to FS       *)
(* and note (SIGKSIG pending for PM), todo, panic (PM's last words), lost  *)
(* (a reply of PM found nobody waiting).                                   *)
(***************************************************************************)
EXTENDS Integers, Sequences, FiniteSetsExt

CONSTANTS
    User,        \* processes, numbered
    Sig,         \* signals, numbered from 1
    SIGPROF,     \* the one of the profile timer
    Ignored,     \* ign_sset: those that are ignored by default
    SaMask,      \* sa_mask of the handler of each signal
    NoDefer,     \* signals whose handler has SA_NODEFER
    ResetHand,   \* signals whose handler has SA_RESETHAND
    Interval,    \* the processes whose profile timer is periodic
    Requests,    \* the calls to PM that processes make: <<call, signal, set>>
    Rare         \* what can happen and is kept out of a run

VARIABLE st

SIGNDELAY == 31
_NSIG     == 26
Handlers  == {"SIG_IGN", "SIG_DFL", "catch"}      \* sa_handler in sigaction()

ASSUME SignalsAssumption ==
    /\ User \subseteq Nat /\ IsFiniteSet(User)
    /\ Sig \subseteq 1..(_NSIG - 1) /\ SIGPROF \in Sig
    /\ Ignored \subseteq Sig /\ NoDefer \subseteq Sig /\ ResetHand \subseteq Sig
    /\ SaMask \in [Sig -> SUBSET Sig] /\ Interval \subseteq User
    /\ Requests \subseteq ({"pause", "sigsuspend", "sigprocmask", "block", "kill",
                            "setuid", "exit"} \cup Handlers)
                          \X (Sig \cup {0}) \X SUBSET Sig
    /\ Rare \subseteq {"tick_in_ksig", "queued_fs_call"}

NoCall == <<"none", 0, {}>>
Item(do, u, sig)    == [do |-> do, u |-> u, sig |-> sig, map |-> {}]
KsigItem(do, u, map) == [do |-> do, u |-> u, sig |-> 0, map |-> map]

Has(s, u, f)  == f \in s.flags[u]
InUse(s, u)   == Has(s, u, "IN_USE") /\ ~Has(s, u, "EXITING")
Sending(s, u, to)   == "SENDING" \in s.rts[u] /\ (s.call[u][1] = "fs") = (to = "FS")
Awaiting(s, u, to)  ==
    /\ "RECEIVING" \in s.rts[u] /\ "SENDING" \notin s.rts[u]
    /\ (s.call[u][1] = "fs") = (to = "FS")

Do(s, items)   == [s EXCEPT !.todo = items \o @]
Panic(s, why)  == [s EXCEPT !.panic = why, !.todo = <<>>]
Set(s, u, f)   == [s EXCEPT !.flags[u] = @ \cup {f}]
setreply(s, u) == Set(s, u, "REPLY")

-----------------------------------------------------------------------------
(* The kernel.                                                             *)
Mutcause_sig(s, u, sig) ==       \* mutant: looks at the wrong flag
    IF sig \in s.pending[u] THEN s
    ELSE IF "SIG_PENDING" \in s.rts[u] THEN [s EXCEPT !.pending[u] = @ \cup {sig}]
    ELSE [s EXCEPT !.pending[u] = @ \cup {sig},
                   !.rts[u] = @ \cup {"SIGNALED", "SIG_PENDING"}, !.note = TRUE]

cause_sig(s, u, sig) ==
    IF sig \in s.pending[u] THEN s
    ELSE IF "SIGNALED" \in s.rts[u] THEN [s EXCEPT !.pending[u] = @ \cup {sig}]
    ELSE [s EXCEPT !.pending[u] = @ \cup {sig},
                   !.rts[u] = @ \cup {"SIGNALED", "SIG_PENDING"}, !.note = TRUE]

sig_delay_done(s, u) == cause_sig([s EXCEPT !.delay[u] = FALSE], u, SIGNDELAY)

(* mini_receive() takes the message of u off the caller queue.             *)
Taken(s, u) ==
    LET t == [s EXCEPT !.rts[u] = @ \ {"SENDING"}]
    IN  IF s.delay[u] THEN sig_delay_done(t, u) ELSE t

sys_stop(s, u)   == [s EXCEPT !.rts[u] = @ \cup {"PROC_STOP"}]
sys_resume(s, u) == [s EXCEPT !.rts[u] = @ \ {"PROC_STOP"}]

(* sys_delay_stop() marks a process that is sending, and returns EBUSY.    *)
Delays(s, u) == "SENDING" \in s.rts[u] \/ s.delay[u]

-----------------------------------------------------------------------------
(* PM.                                                                     *)
tell_fs(s, u, req) ==
    IF Has(s, u, "FS_CALL") THEN Panic(s, "tell_fs: not idle")
    ELSE [Set(s, u, "FS_CALL") EXCEPT !.fs[u] = req]

exit_proc(s, u) ==
    LET t == tell_fs(sys_stop(s, u), u, "exit")
    IN  [t EXCEPT !.flags[u] = (@ \cap {"IN_USE", "FS_CALL"}) \cup {"EXITING"}]

Mutunpause(s, u) ==              \* mutant: the process is stopped in any case
    IF Has(s, u, "DELAY_CALL") THEN s
    ELSE IF Has(s, u, "PAUSED") THEN Set(sys_stop(s, u), u, "UNPAUSED")
    ELSE IF Has(s, u, "PM_SIG_PENDING") THEN tell_fs(s, u, "unpause")
    ELSE tell_fs(Set(sys_stop(s, u), u, "PM_SIG_PENDING"), u, "unpause")

unpause(s, u) ==
    IF Has(s, u, "DELAY_CALL") THEN s
    ELSE IF Has(s, u, "PAUSED") THEN Set(sys_stop(s, u), u, "UNPAUSED")
    ELSE IF Has(s, u, "PM_SIG_PENDING") THEN tell_fs(s, u, "unpause")
    ELSE IF Delays(s, u) THEN [Set(s, u, "DELAY_CALL") EXCEPT !.delay[u] = TRUE]
    ELSE tell_fs(Set(sys_stop(s, u), u, "PM_SIG_PENDING"), u, "unpause")

(* A caught signal: interrupt the call the process is in, then set up the  *)
(* handler (entry "sig_send"), or keep the signal until that is possible.  *)
Catch(s, u, sig) ==
    LET t == IF Has(s, u, "UNPAUSED") THEN s ELSE unpause(s, u)
    IN  IF t.panic # "no" THEN t
        ELSE IF Has(t, u, "UNPAUSED") THEN Do(t, <<Item("sig_send", u, sig)>>)
        ELSE [t EXCEPT !.sigpending[u] = @ \cup {sig}]

(* FS is busy with a request for the process: its signals wait for that.   *)
Postpone(s, u, sig) ==
    LET t == [s EXCEPT !.sigpending[u] = @ \cup {sig}]
    IN  IF Has(s, u, "PM_SIG_PENDING") THEN t
        ELSE Set(sys_stop(t, u), u, "PM_SIG_PENDING")

sig_proc(s, u, sig) ==
    IF ~InUse(s, u) THEN Panic(s, "signal sent to exiting process")
    ELSE IF Has(s, u, "FS_CALL") THEN Postpone(s, u, sig)
    ELSE IF sig \in s.ignore[u] THEN s
    ELSE IF sig \in s.sigmask[u] THEN [s EXCEPT !.sigpending[u] = @ \cup {sig}]
    ELSE IF sig \in s.catch[u] THEN Catch(s, u, sig)
    ELSE IF sig \in Ignored THEN s
    ELSE exit_proc(s, u)

-----------------------------------------------------------------------------
(* PM waits for a message, or has something to do.                         *)
PMReady == st.panic = "no" /\ st.todo = <<>>
Quiet   == PMReady /\ ~st.note
Task    == Head(st.todo)
Rest    == [st EXCEPT !.todo = Tail(@)]
At(do)  == st.todo # <<>> /\ Task.do = do
Replies == Item("replies", 0, 0)

(* A notification of pending kernel signals comes before other messages.   *)
ksig_pending ==
    /\ PMReady /\ st.note
    /\ st' = Do([st EXCEPT !.note = FALSE], <<Item("getksig", 0, 0), Replies>>)

Signaled(s) == {u \in User : "SIGNALED" \in s.rts[u]}

(* sys_getksig(): the first process with signals, or none. The clock       *)
(* interrupt can come between its three assignments.                       *)
getksig ==
    /\ At("getksig")
    /\ st' = IF Signaled(st) = {} THEN Rest
             ELSE LET u == Min(Signaled(st))
                  IN  Do(Rest, <<KsigItem("getksig_empty", u, st.pending[u])>>)

getksig_empty ==
    /\ At("getksig_empty")
    /\ st' = Do([Rest EXCEPT !.pending[Task.u] = {}],
                <<KsigItem("getksig_unset", Task.u, Task.map)>>)

MutHandled(u, map) ==            \* mutant: SIGNDELAY is taken for no signal
    IF InUse(st, u) THEN map \ {SIGNDELAY} ELSE {}

(* handle_ksig() does nothing for a process that exits.                    *)
Handled(u, map) == IF InUse(st, u) THEN map ELSE {}

getksig_unset ==
    /\ At("getksig_unset")
    /\ st' = Do([Rest EXCEPT !.rts[Task.u] = @ \ {"SIGNALED"}],
                <<KsigItem("handle_ksig", Task.u, Handled(Task.u, Task.map)),
                  Item("endksig", Task.u, 0), Item("getksig", 0, 0)>>)

(* The signals of the map in turn, and SIGNDELAY last.                     *)
handle_ksig ==
    /\ At("handle_ksig")
    /\ LET u == Task.u
           sigs == {k \in Task.map : k < _NSIG}
           i == Min(sigs)
           vtimer == IF i = SIGPROF THEN <<Item("check_vtimer", u, i)>> ELSE <<>>
       IN  st' = IF sigs # {}
                 THEN Do(Rest, vtimer \o <<Item("check_sig", u, i),
                                           KsigItem("handle_ksig", u, Task.map \ {i})>>)
                 ELSE IF SIGNDELAY \in Task.map /\ Has(st, u, "DELAY_CALL")
                 THEN IF st.flags[u] \cap {"FS_CALL", "PM_SIG_PENDING"} # {}
                      THEN Panic(st, "handle_ksig: bad process state")
                      ELSE Do([Rest EXCEPT !.flags[u] = @ \ {"DELAY_CALL"}],
                              <<Item("check_pending", u, 1), Item("delayed", u, 0)>>)
                 ELSE Rest

delayed ==
    /\ At("delayed")
    /\ st' = IF Has(st, Task.u, "DELAY_CALL")
             THEN Panic(st, "handle_ksig: multiple delay calls?") ELSE Rest

check_vtimer ==
    /\ At("check_vtimer")
    /\ st' = [Rest EXCEPT !.timer[Task.u] = @ \/ Task.u \in Interval]

(* sys_endksig(), for a process that still exists: the check, and the      *)
(* clearing of the flag, between which the clock interrupt can come.       *)
endksig ==
    /\ At("endksig")
    /\ LET u == Task.u
       IN  st' = IF ~InUse(st, u) THEN Rest
                 ELSE IF "SIG_PENDING" \notin st.rts[u] THEN Panic(st, "sys_endksig failed")
                 ELSE IF "SIGNALED" \in st.rts[u] THEN Rest
                 ELSE Do(Rest, <<Item("endksig_unset", u, 0)>>)

endksig_unset ==
    /\ At("endksig_unset")
    /\ st' = [Rest EXCEPT !.rts[Task.u] = @ \ {"SIG_PENDING"}]

check_sig ==
    /\ At("check_sig")
    /\ st' = IF InUse(st, Task.u) THEN sig_proc(Rest, Task.u, Task.sig) ELSE Rest

(* From signal Task.sig on, until FS has been asked to do something.       *)
check_pending ==
    /\ At("check_pending")
    /\ LET u == Task.u
           sigs == {i \in st.sigpending[u] \ st.sigmask[u] : i >= Task.sig}
           i == Min(sigs)
       IN  st' = IF sigs = {} \/ (Task.sig > 1 /\ Has(st, u, "FS_CALL")) THEN Rest
                 ELSE sig_proc(Do([Rest EXCEPT !.sigpending[u] = @ \ {i}],
                                  <<Item("check_pending", u, i + 1)>>), u, i)

MutInterrupted(s, u) == IF Has(s, u, "PAUSED") THEN setreply(s, u) ELSE s  \* mutant

(* A call that PM has suspended gets EINTR.                                *)
Interrupted(s, u) ==
    IF Has(s, u, "PAUSED")
    THEN setreply([s EXCEPT !.flags[u] = @ \ {"PAUSED"}], u) ELSE s

(* PM has no room on the stack of the process, or sets up the handler.     *)
sig_send ==
    /\ At("sig_send")
    /\ LET u == Task.u
           i == Task.sig
           s == [Rest EXCEPT
                   !.sigmask[u] = (@ \cup SaMask[i] \cup {i}) \
                                  (IF i \in NoDefer THEN {i} ELSE {}),
                   !.catch[u] = @ \ (IF i \in ResetHand THEN {i} ELSE {}),
                   !.sigpending[u] = @ \ {i}]
           t == Interrupted(s, u)
       IN  \E pushed \in BOOLEAN :
             st' = IF ~Has(st, u, "UNPAUSED") THEN Panic(st, "sig_send: process not unpaused")
                   ELSE IF ~pushed THEN exit_proc(s, u)
                   ELSE IF Has(t, u, "PM_SIG_PENDING") THEN t
                   ELSE Do([t EXCEPT !.flags[u] = @ \ {"UNPAUSED"}],
                           <<Item("sys_resume", u, 0)>>)

resume ==
    /\ At("sys_resume")
    /\ st' = sys_resume(Rest, Task.u)

Mutrestart_sigs ==               \* mutant: a caught signal is not waited for
    /\ At("restart_sigs")
    /\ st' = sys_resume([Rest EXCEPT !.flags[Task.u] = @ \ {"PM_SIG_PENDING", "UNPAUSED"}], Task.u)

(* restart_sigs(), after check_pending().                                  *)
restart_sigs ==
    /\ At("restart_sigs")
    /\ st' = IF Has(st, Task.u, "FS_CALL") THEN Rest
             ELSE sys_resume([Rest EXCEPT !.flags[Task.u] = @ \ {"PM_SIG_PENDING", "UNPAUSED"}],
                             Task.u)

(* There is no answer for a process that has killed itself with kill().    *)
setresult ==
    /\ At("setreply")
    /\ st' = IF Task.sig # 0 /\ ~InUse(st, Task.u) THEN Rest
             ELSE setreply(Rest, Task.u)

MutReplied(s, to) == s.flags     \* mutant: the replies stay pending
Replied(s, to) ==
    [u \in User |-> IF u \in to THEN s.flags[u] \ {"REPLY"} ELSE s.flags[u]]

(* The end of the main loop: sendnb() to all who have a reply coming.      *)
replies ==
    /\ At("replies")
    /\ LET to == {u \in User : Has(st, u, "REPLY") /\ InUse(st, u)}
       IN  st' = [Rest EXCEPT
                    !.flags = Replied(st, to),
                    !.rts = [u \in User |-> IF u \in to /\ Awaiting(st, u, "PM")
                                            THEN @[u] \ {"RECEIVING"} ELSE @[u]],
                    !.lost = @ \/ \E u \in to : ~Awaiting(st, u, "PM")]

-----------------------------------------------------------------------------
Mutdo_sigaction(s, u, handler, i) ==  \* mutant: an ignored signal is still caught
    [s EXCEPT !.ignore[u] = IF handler = "SIG_IGN" THEN @ \cup {i} ELSE @ \ {i},
              !.sigpending[u] = IF handler = "SIG_IGN" THEN @ \ {i} ELSE @,
              !.catch[u] = IF handler = "SIG_DFL" THEN @ \ {i} ELSE @ \cup {i}]

do_sigaction(s, u, handler, i) ==
    [s EXCEPT !.ignore[u] = IF handler = "SIG_IGN" THEN @ \cup {i} ELSE @ \ {i},
              !.sigpending[u] = IF handler = "SIG_IGN" THEN @ \ {i} ELSE @,
              !.catch[u] = IF handler = "catch" THEN @ \cup {i} ELSE @ \ {i}]

(* A call of u to PM. The main loop drops those of exiting processes.      *)
Calls(s, u) ==
    LET c == s.call[u]
        t == [s EXCEPT !.todo = <<Replies>>]
        paused == Set(t, u, "PAUSED")
        result == <<Item("setreply", u, 0)>>
        pending == <<Item("check_pending", u, 1)>>
    IN  CASE c[1] = "pause" -> paused
          [] c[1] = "sigsuspend" -> Do([paused EXCEPT !.sigmask[u] = c[3]], pending)
          [] c[1] = "sigprocmask" -> Do([t EXCEPT !.sigmask[u] = c[3]], pending \o result)
          [] c[1] = "block" -> setreply([t EXCEPT !.sigmask[u] = @ \cup c[3]], u)
          [] c[1] \in Handlers -> setreply(do_sigaction(t, u, c[1], c[2]), u)
          [] c[1] = "kill" -> Do(t, <<Item("check_sig", u, c[2]), Item("setreply", u, c[2])>>)
          [] c[1] = "setuid" -> tell_fs(t, u, "setuid")
          [] c[1] = "exit" -> exit_proc(t, u)

main ==
    /\ At("call")
    /\ st' = IF Has(st, Task.u, "EXITING") THEN Rest ELSE Calls(Rest, Task.u)

(* PM receives the message of u, who waited in its caller queue.           *)
TakeCall(u) ==
    /\ Quiet /\ Sending(st, u, "PM")
    /\ st' = Do(Taken(st, u), <<Item("call", u, 0)>>)

(* kill() by another process, or an alarm: SIGALRM from cause_sigalrm().   *)
do_kill(u, sig) ==
    /\ Quiet /\ InUse(st, u)
    /\ st' = Do(st, <<Item("check_sig", u, sig), Replies>>)

(* FS has answered PM's request for u.                                     *)
handle_fs_reply(u) ==
    /\ Quiet /\ st.fs[u] \in {"setuid", "exit", "unpaused"}
    /\ LET s == [st EXCEPT !.fs[u] = "none", !.flags[u] = @ \ {"FS_CALL"}]
           t == CASE st.fs[u] = "setuid" -> setreply(s, u)
                  [] st.fs[u] = "unpaused" -> Set(s, u, "UNPAUSED")
                  [] st.fs[u] = "exit" -> [s EXCEPT !.rts[u] = {"SLOT_FREE"},
                                                    !.flags[u] = {}]
       IN  st' = IF ~Has(st, u, "FS_CALL") THEN Panic(st, "reply without request")
                 ELSE IF Has(st, u, "UNPAUSED") THEN Panic(st, "UNPAUSED set on entry")
                 ELSE IF InUse(t, u) /\ Has(t, u, "PM_SIG_PENDING")
                 THEN Do(t, <<Item("check_pending", u, 1), Item("restart_sigs", u, 0), Replies>>)
                 ELSE Do(t, <<Replies>>)

-----------------------------------------------------------------------------
(* The others. SYSTEM runs to completion: only interrupts come in between  *)
(* the parts of its calls for PM.                                          *)
Splits == {"getksig_empty", "getksig_unset", "endksig_unset"}
SystemIdle == \A do \in Splits : ~At(do)

(* The profile timer of u expires. The clock interrupt can be anywhere.    *)
vtimer_check(u) ==
    /\ st.timer[u] /\ "SLOT_FREE" \notin st.rts[u]
    /\ ~SystemIdle => "tick_in_ksig" \in Rare
    /\ st' = cause_sig([st EXCEPT !.timer[u] = FALSE], u, SIGPROF)

(* sys_kill() by a driver or FS.                                           *)
sys_kill(u, sig) ==
    /\ SystemIdle /\ "SLOT_FREE" \notin st.rts[u]
    /\ st' = cause_sig(st, u, sig)

(* u calls PM and waits, in the caller queue unless PM waits for messages. *)
CallPM(u, c) ==
    /\ SystemIdle /\ st.rts[u] = {}
    /\ LET s == [st EXCEPT !.call[u] = c]
       IN  IF Quiet /\ \A v \in User : ~Sending(st, v, "PM")
           THEN st' = Do([s EXCEPT !.rts[u] = {"RECEIVING"}], <<Item("call", u, 0)>>)
           ELSE /\ c[1] = "setuid" => "queued_fs_call" \in Rare
                /\ st' = [s EXCEPT !.rts[u] = {"SENDING", "RECEIVING"}]

(* u calls FS, which takes the message and answers at some time.           *)
CallFS(u) ==
    /\ SystemIdle /\ st.rts[u] = {}
    /\ st' = [st EXCEPT !.call[u] = <<"fs", 0, {}>>, !.rts[u] = {"SENDING", "RECEIVING"}]

FSTake(u) ==
    /\ SystemIdle /\ Sending(st, u, "FS")
    /\ st' = Taken(st, u)

FSAnswer(u) ==
    /\ SystemIdle /\ Awaiting(st, u, "FS")
    /\ st' = [st EXCEPT !.rts[u] = @ \ {"RECEIVING"}]

(* FS interrupts the call of u, if there is one, and answers PM.           *)
FSUnpause(u) ==
    /\ SystemIdle /\ st.fs[u] = "unpause"
    /\ st' = [st EXCEPT !.fs[u] = "unpaused",
                        !.rts[u] = IF Awaiting(st, u, "FS") THEN @ \ {"RECEIVING"} ELSE @]

-----------------------------------------------------------------------------
Init ==
    st = [rts |-> [u \in User |-> {}], pending |-> [u \in User |-> {}],
          delay |-> [u \in User |-> FALSE], timer |-> [u \in User |-> TRUE],
          call |-> [u \in User |-> NoCall], flags |-> [u \in User |-> {"IN_USE"}],
          sigpending |-> [u \in User |-> {}], sigmask |-> [u \in User |-> {}],
          catch |-> [u \in User |-> {}], ignore |-> [u \in User |-> {}],
          fs |-> [u \in User |-> "none"], note |-> FALSE, todo |-> <<>>,
          panic |-> "no", lost |-> FALSE]

PMStep ==
    \/ ksig_pending \/ getksig \/ getksig_empty \/ getksig_unset \/ handle_ksig
    \/ delayed \/ check_vtimer \/ endksig \/ endksig_unset \/ check_sig
    \/ check_pending \/ sig_send \/ resume \/ restart_sigs \/ setresult
    \/ replies \/ main

Next ==
    \/ PMStep
    \/ \E u \in User :
          \/ TakeCall(u) \/ handle_fs_reply(u) \/ vtimer_check(u)
          \/ CallFS(u) \/ FSTake(u) \/ FSAnswer(u) \/ FSUnpause(u)
          \/ \E c \in Requests : CallPM(u, c)
          \/ \E sig \in Sig : do_kill(u, sig) \/ sys_kill(u, sig)

Spec == Init /\ [][Next]_st

(* PM goes on when it can, and receives from everybody in its caller queue *)
(* in turn (mini_receive() takes the first). FS does what it is asked to:  *)
(* it runs between two kernel calls, SYSTEM only keeps it for a while.     *)
FairSpec ==
    /\ Spec /\ WF_st(PMStep)
    /\ \A u \in User : /\ SF_st(TakeCall(u)) /\ SF_st(handle_fs_reply(u))
                       /\ SF_st(FSTake(u)) /\ SF_st(FSUnpause(u))

-----------------------------------------------------------------------------
(* The flags and sets have their types.                                    *)
TypeOK ==
    \A u \in User :
        /\ st.rts[u] \subseteq {"SENDING", "RECEIVING", "SIGNALED", "SIG_PENDING",
                                "PROC_STOP", "SLOT_FREE"}
        /\ st.flags[u] \subseteq {"IN_USE", "EXITING", "PAUSED", "FS_CALL", "REPLY",
                                  "PM_SIG_PENDING", "UNPAUSED", "DELAY_CALL"}
        /\ st.pending[u] \subseteq Sig \cup {SIGNDELAY}
        /\ st.sigpending[u] \cup st.sigmask[u] \cup st.catch[u] \cup st.ignore[u] \subseteq Sig
        /\ st.catch[u] \cap st.ignore[u] = {}

(* PM finds every process in a state it expects: none of the panic() calls *)
(* of ksig_pending(), handle_ksig(), sig_proc(), sig_send(), tell_fs() and *)
(* handle_fs_reply() is reached.                                           *)
NoPanic == st.panic = "no"

(* PM is told of every signal of the kernel, and ends what it has started: *)
(* when it waits and is not notified, no process that lives has kernel     *)
(* signals pending or is blocked because of them.                          *)
KsigTold ==
    Quiet => \A u \in User : InUse(st, u) =>
        st.pending[u] = {} /\ st.rts[u] \cap {"SIGNALED", "SIG_PENDING"} = {}

(* A process is stopped exactly while PM holds it for a signal or its      *)
(* exit: the kernel's flag and those of PM agree whenever PM waits.        *)
StopsAgree ==
    PMReady => \A u \in User : Has(st, u, "IN_USE") =>
        ("PROC_STOP" \in st.rts[u] <=>
            st.flags[u] \cap {"PM_SIG_PENDING", "UNPAUSED", "EXITING"} # {})

(* A handler is set up in a process that is stopped and in no call, or in  *)
(* one that PM answers with EINTR: sig_send() never redirects a process    *)
(* that FS or the kernel still holds a message or an answer for.           *)
HandlerSafe ==
    At("sig_send") =>
        LET u == Task.u
        IN  /\ "PROC_STOP" \in st.rts[u] /\ "SENDING" \notin st.rts[u]
            /\ "RECEIVING" \in st.rts[u] =>
                 Awaiting(st, u, "PM") /\ (Has(st, u, "PAUSED") \/ Has(st, u, "REPLY"))

(* The process a reply of PM is for waits for it (sendnb() in main()).     *)
RepliesArrive == ~st.lost

(* A caught signal that is not blocked does not stay pending for ever: the *)
(* handler is set up, after the call of the process has been interrupted,  *)
(* if PM is not flooded with kernel signals.                               *)
SignalsHandled ==
    []<>Quiet => \A u \in User, sig \in Sig :
        []<>~(InUse(st, u) /\ sig \in (st.sigpending[u] \cap st.catch[u]) \ st.sigmask[u])
=============================================================================
