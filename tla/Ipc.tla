-------------------------------- MODULE Ipc --------------------------------
(***************************************************************************)
(* Message passing in the kernel (kernel/proc.c): sys_call() with          *)
(* mini_send(), mini_receive(), mini_notify() and mini_senda(), deadlock() *)
(* and what happens to messages when a process forks or dies               *)
(* (do_fork.c, do_exit.c, do_kill.c and clear_endpoint() in system.c).     *)
(*                                                                         *)
(* What the mini_ functions change is one record s:                        *)
(*   rts      p_rts_flags, a set      callerq  p_caller_q, a sequence      *)
(*   getfrom  p_getfrom_e             sendto   p_sendto_e                  *)
(*   reply    MF_REPLY_PEND           asyn     MF_ASYNMSG                  *)
(*   dmsg     p_delivermsg, with MF_DELIVERMSG                             *)
(*   notes    s_notify_pending of a privilege structure, a set of ids      *)
(*   tab      the table of asynchronous messages in the sender's memory    *)
(*   size     whether s_asynsize is not 0                                  *)
(* They are functions from one such record to the next.                    *)
(***************************************************************************)
EXTENDS Queues

CONSTANTS
    NR_PROCS,     \* process slots, numbered 0..NR_PROCS-1
    Booted,       \* the slots in use when the system has booted
    SysProcs,     \* those of them with a privilege structure of their own
    Unkillable,   \* PM, VFS and VM: clear_endpoint() panics for them
    Hooked,       \* the drivers with an interrupt hook
    ipc_to,       \* s_ipc_to: where a privilege structure may send
    trap_mask,    \* s_trap_mask: the calls it may make
    BITCHUNK_BITS,\* bits in a chunk of a notification map
    AsynNr,       \* bound: entries in a table of asynchronous messages
    MaxForks,     \* bound: forks
    Rare          \* what the kernel lets programs do and is kept out of a run

VARIABLES
    pt,     \* the record of fields above, for all processes
    gen,    \* the generation in p_endpoint
    sys     \* the slots whose p_priv is a structure of their own

Slot     == 0..(NR_PROCS - 1)
PM       == 0
HARDWARE == -1
USER     == NR_PROCS                    \* USER_PRIV_ID: shared by all users
Endpoint == (Slot \cup {HARDWARE}) \X Nat
ANY      == <<NR_PROCS, 0>>
NoMsg    == [src |-> ANY, dst |-> ANY, kind |-> "none"]
Calls    == {"SEND", "SENDREC", "RECEIVE", "NOTIFY", "SENDNB", "SENDA"}

ASSUME IpcAssumption ==
    /\ NR_PROCS \in Nat \ {0}
    /\ Booted \subseteq Slot /\ SysProcs \subseteq Booted
    /\ PM \in SysProcs \cap Unkillable /\ Hooked \subseteq SysProcs
    /\ ipc_to \in [0..NR_PROCS -> SUBSET (0..NR_PROCS)]
    /\ \A p \in 0..NR_PROCS : p \notin ipc_to[p]
    /\ trap_mask \in [0..NR_PROCS -> SUBSET Calls]
    /\ trap_mask[USER] \subseteq {"SENDREC"}
    /\ BITCHUNK_BITS \in Nat \ {0}
    /\ AsynNr \in Nat /\ MaxForks \in Nat
    /\ Rare \subseteq {"receive_self", "fork_queued"}

Priv(p)  == IF p \in sys \cup {HARDWARE} THEN p ELSE USER
MutId(p) == Priv(p)                     \* mutant: the tasks are forgotten
Id(p)    == Priv(p) + 1                 \* s_id: the tasks come first
Ep(p)    == IF p = HARDWARE THEN <<p, 0>> ELSE <<p, gen[p]>>
Msg(src, dst, kind) == [src |-> src, dst |-> dst, kind |-> kind]

may_send_to(p, d) == Priv(d) \in ipc_to[Priv(p)]
isokendpt(s, e)   == "SLOT_FREE" \notin s.rts[e[1]] /\ gen[e[1]] = e[2]
dead(s, p)        == "NO_ENDPOINT" \in s.rts[p]

-----------------------------------------------------------------------------
(* Mutant: any process that receives is taken to wait for the sender.      *)
MutWILLRECEIVE(s, d, e) == "RECEIVING" \in s.rts[d] /\ "SENDING" \notin s.rts[d]

WILLRECEIVE(s, d, e) ==
    /\ "RECEIVING" \in s.rts[d] /\ "SENDING" \notin s.rts[d]
    /\ s.getfrom[d] \in {ANY, e}

(* QueueMess() and the waking of a receiver.                               *)
QueueMess(s, m, d) == [s EXCEPT !.dmsg[d] = m]
MutDeliver(s, m, d) == QueueMess(s, m, d)   \* mutant: the receiver sleeps on
Deliver(s, m, d)   == [s EXCEPT !.dmsg[d] = m, !.rts[d] = @ \ {"RECEIVING"}]

(* Whom p waits for: the chain that deadlock() follows.                    *)
Waits(s, p)   == s.rts[p] \cap {"SENDING", "RECEIVING"} # {}
WaitsOn(s, p) == IF "RECEIVING" \in s.rts[p] THEN s.getfrom[p] ELSE s.sendto[p]

(* Following the chain from d leads to c: c is in every set that d is in   *)
(* and that the chain does not leave.                                      *)
Reaches(s, d, c) ==
    \A C \in SUBSET Slot :
        (d \in C /\ \A x \in C : Waits(s, x) /\ WaitsOn(s, x) # ANY
                                    => WaitsOn(s, x)[1] \in C)
        => c \in C

(* Mutant: only the process at the other end is looked at.                 *)
Mutdeadlock(s, function, c, d) ==
    /\ Waits(s, d) /\ WaitsOn(s, d)[1] = c
    /\ (function = "SEND") <=> ("SENDING" \in s.rts[d])

(* Two processes that call each other with SEND and RECEIVE get along.     *)
deadlock(s, function, c, d) ==
    /\ c # d /\ Reaches(s, d, c)
    /\ WaitsOn(s, d)[1] = c =>
         ((function = "SEND") <=> ("SENDING" \in s.rts[d]))

-----------------------------------------------------------------------------
(* Whether mini_send() returns OK; it changes nothing when it does not.    *)
SendsOK(s, p, e, blocking) ==
    /\ ~dead(s, e[1])
    /\ \/ WILLRECEIVE(s, e[1], Ep(p))
       \/ blocking /\ ~deadlock(s, "SEND", p, e[1])

mini_send(s, p, e) ==
    IF WILLRECEIVE(s, e[1], Ep(p))
    THEN Deliver(s, Msg(Ep(p), e, "send"), e[1])
    ELSE [s EXCEPT !.rts[p] = @ \cup {"SENDING"}, !.sendto[p] = e,
                   !.callerq[e[1]] = Append(@, p)]

(* Mutant: notifications are delivered in the middle of a SENDREC.         *)
Mutmini_notify(s, src, d) ==
    IF WILLRECEIVE(s, d, src)
    THEN Deliver(s, Msg(src, Ep(d), "notify"), d)
    ELSE [s EXCEPT !.notes[Priv(d)] = @ \cup {Id(src[1])}]

mini_notify(s, src, d) ==
    IF WILLRECEIVE(s, d, src) /\ ~s.reply[d]
    THEN Deliver(s, Msg(src, Ep(d), "notify"), d)
    ELSE [s EXCEPT !.notes[Priv(d)] = @ \cup {Id(src[1])}]

-----------------------------------------------------------------------------
(* Asynchronous messages. Entry i of src's table is for p, and waits.      *)
For(s, src, i, p) == ~s.tab[src][i].done /\ s.tab[src][i].dst = Ep(p)

(* AMF_NOREPLY: not to be taken for the answer to a SENDREC.               *)
Postponed(s, src, i, p) == s.tab[src][i].noreply /\ s.reply[p]

Pending(s, src, p) ==
    IF src \in sys /\ s.size[src] /\ may_send_to(src, p)
    THEN {i \in DOMAIN s.tab[src] : For(s, src, i, p)} ELSE {}
Ready(s, src, p) == {i \in Pending(s, src, p) : ~Postponed(s, src, i, p)}

AllDone(s, src) == \A i \in DOMAIN s.tab[src] : s.tab[src][i].done

(* try_one() found nothing for p in these tables: it forgets the finished. *)
Forget(s, S, p) ==
    [s EXCEPT !.size = [x \in Slot |->
        s.size[x] /\ ~(x \in S /\ may_send_to(x, p) /\ AllDone(s, x))]]

(* try_one() delivers the first entry for p.                               *)
AsynMsg(src, entry) ==
    Msg(Ep(src), entry.dst, IF entry.noreply THEN "noreply" ELSE "senda")
TakeAsyn(s, src, p) ==
    LET i == Min(Ready(s, src, p))
    IN  QueueMess([s EXCEPT !.tab[src][i].done = TRUE],
                  AsynMsg(src, s.tab[src][i]), p)

-----------------------------------------------------------------------------
(* mini_receive() looks for a notification, a waiting sender and an        *)
(* asynchronous message, in this order. Of each chunk of the notification  *)
(* map it looks at the lowest bit only.                                    *)
From(e, p) == e = ANY \/ e[1] = p

FirstBits(N) == {n \in N : \A m \in N :
                    m \div BITCHUNK_BITS = n \div BITCHUNK_BITS => n <= m}

Notified(s, p, e) ==
    IF s.reply[p] THEN {} ELSE {n \in FirstBits(s.notes[Priv(p)]) : From(e, n - 1)}

TakeNote(s, p, n) ==
    QueueMess([s EXCEPT !.notes[Priv(p)] = @ \ {n}],
              Msg(Ep(n - 1), Ep(p), "notify"), p)

Callers(s, p, e) == {i \in DOMAIN s.callerq[p] : From(e, s.callerq[p][i])}

(* Mutant: the sender goes on and stays in the queue.                      *)
MutTakeCaller(s, p, q) ==
    QueueMess([s EXCEPT !.rts[q] = @ \ {"SENDING"}],
              Msg(Ep(q), s.sendto[q], "send"), p)

TakeCaller(s, p, q) ==
    QueueMess([s EXCEPT !.rts[q] = @ \ {"SENDING"},
                        !.callerq[p] = Unlink(@, q)],
              Msg(Ep(q), s.sendto[q], "send"), p)

AsynFrom(s, p, e) ==
    IF s.asyn[p] THEN {x \in Slot : From(e, x) /\ Ready(s, x, p) # {}} ELSE {}

(* Mutant: MF_ASYNMSG is cleared after a look at one source, too.          *)
MutSearched(s, p, e) ==
    IF ~s.asyn[p] THEN s
    ELSE [Forget(s, IF e = ANY THEN Slot ELSE {e[1]}, p) EXCEPT
             !.asyn[p] = \E x \in Slot : From(e, x) /\ Pending(s, x, p) # {}]

(* try_async() clears MF_ASYNMSG unless messages were postponed.           *)
Searched(s, p, e) ==
    IF ~s.asyn[p] THEN s
    ELSE IF e = ANY
    THEN [Forget(s, Slot, p) EXCEPT
             !.asyn[p] = \E x \in Slot : Pending(s, x, p) # {}]
    ELSE Forget(s, {e[1]}, p)

(* It blocks unless deadlock() finds a cycle.                              *)
Block(s, p, e) ==
    IF e # ANY /\ deadlock(s, "RECEIVE", p, e[1]) THEN s
    ELSE [s EXCEPT !.rts[p] = @ \cup {"RECEIVING"}, !.getfrom[p] = e]

mini_receive(s, p, e) ==
    IF e # ANY /\ dead(s, e[1]) THEN s
    ELSE IF "SENDING" \in s.rts[p] THEN Block(s, p, e)
    ELSE IF Notified(s, p, e) # {} THEN TakeNote(s, p, Min(Notified(s, p, e)))
    ELSE IF Callers(s, p, e) # {}
    THEN TakeCaller(s, p, s.callerq[p][Min(Callers(s, p, e))])
    ELSE IF AsynFrom(s, p, e) # {}
    THEN LET x == Min(AsynFrom(s, p, e))
         IN  TakeAsyn(IF e = ANY THEN Forget(s, 0..(x - 1), p) ELSE s, x, p)
    ELSE Block(Searched(s, p, e), p, e)

-----------------------------------------------------------------------------
(* mini_senda(): entry i of table t of p cannot be delivered ever; can be  *)
(* delivered at once; is the first such one for its destination.           *)
Refused(s, p, t, i) ==
    LET d == t[i].dst[1]
    IN  ~isokendpt(s, t[i].dst) \/ ~may_send_to(p, d) \/ dead(s, d)

Direct(s, p, t, i) ==
    LET d == t[i].dst[1]
    IN  /\ ~Refused(s, p, t, i) /\ WILLRECEIVE(s, d, Ep(p))
        /\ ~(t[i].noreply /\ s.reply[d])

Delivered(s, p, t, i) ==
    /\ Direct(s, p, t, i)
    /\ \A j \in 1..(i - 1) : t[j].dst = t[i].dst => ~Direct(s, p, t, j)

Left(s, p, t, i) == ~Refused(s, p, t, i) /\ ~Delivered(s, p, t, i)

mini_senda(s, p, t) ==
    LET now(d)  == {i \in DOMAIN t : t[i].dst[1] = d /\ Delivered(s, p, t, i)}
        left(d) == {i \in DOMAIN t : t[i].dst[1] = d /\ Left(s, p, t, i)}
    IN  [s EXCEPT
          !.rts  = [d \in Slot |-> IF now(d) = {} THEN @[d] ELSE @[d] \ {"RECEIVING"}],
          !.dmsg = [d \in Slot |-> IF now(d) = {} THEN @[d]
                                   ELSE AsynMsg(p, t[Min(now(d))])],
          !.asyn = [d \in Slot |-> @[d] \/ left(d) # {}],
          !.tab[p] = [i \in DOMAIN t |-> [t[i] EXCEPT !.done = ~Left(s, p, t, i)]],
          !.size[p] = \E d \in Slot : left(d) # {}]

(* asynsend3() of the library: the table without what is done, and one more *)
(* message.                                                                *)
asynsend3(s, p, e, noreply) ==
    Append(SelectSeq(s.tab[p], LAMBDA entry : ~entry.done),
           [dst |-> e, noreply |-> noreply, done |-> FALSE])

-----------------------------------------------------------------------------
vars == <<pt, gen, sys>>

(* A process that runs has got the message it received.                    *)
Running(p) == pt.rts[p] = {} /\ pt.dmsg[p] = NoMsg

(* The checks of sys_call(); a call they refuse changes nothing.           *)
Allowed(p, call, e) ==
    /\ Running(p) /\ call \in trap_mask[Priv(p)]
    /\ e # ANY => isokendpt(pt, e)
    /\ call # "RECEIVE" => e # ANY /\ may_send_to(p, e[1])

Peers == {Ep(q) : q \in Slot}

Send(p, e) ==
    /\ Allowed(p, "SEND", e) /\ SendsOK(pt, p, e, TRUE)
    /\ pt' = mini_send(pt, p, e)
    /\ UNCHANGED <<gen, sys>>

Sendnb(p, e) ==
    /\ Allowed(p, "SENDNB", e) /\ SendsOK(pt, p, e, FALSE)
    /\ pt' = mini_send(pt, p, e)
    /\ UNCHANGED <<gen, sys>>

Sendrec(p, e) ==
    /\ Allowed(p, "SENDREC", e)
    /\ LET s == [pt EXCEPT !.reply[p] = TRUE]
       IN  pt' = IF SendsOK(s, p, e, TRUE)
                 THEN mini_receive(mini_send(s, p, e), p, e) ELSE s
    /\ UNCHANGED <<gen, sys>>

Receive(p, e) ==
    /\ Allowed(p, "RECEIVE", e)
    /\ e # ANY /\ e[1] = p => "receive_self" \in Rare
    /\ pt' = mini_receive([pt EXCEPT !.reply[p] = FALSE], p, e)
    /\ UNCHANGED <<gen, sys>>

Notify(p, e) ==
    /\ Allowed(p, "NOTIFY", e)
    /\ pt' = mini_notify(pt, Ep(p), e[1])
    /\ UNCHANGED <<gen, sys>>

Senda(p, e, noreply) ==
    /\ Running(p) /\ p \in sys /\ "SENDA" \in trap_mask[Priv(p)]
    /\ Len(asynsend3(pt, p, e, noreply)) <= AsynNr
    /\ pt' = mini_senda(pt, p, asynsend3(pt, p, e, noreply))
    /\ UNCHANGED <<gen, sys>>

(* generic_handler(): an interrupt is a notification from HARDWARE.        *)
Interrupt(d) ==
    /\ d \in Hooked /\ "SLOT_FREE" \notin pt.rts[d] /\ gen[d] = 0
    /\ pt' = mini_notify(pt, Ep(HARDWARE), d)
    /\ UNCHANGED <<gen, sys>>

(* delivermsg(), before the process runs again.                            *)
DeliverMsg(p) ==
    /\ pt.rts[p] = {} /\ pt.dmsg[p] # NoMsg
    /\ pt' = [pt EXCEPT !.dmsg[p] = NoMsg]
    /\ UNCHANGED <<gen, sys>>

-----------------------------------------------------------------------------
(* Mutant: those who wait for the dead are not told.                       *)
Mutclear_endpoint(s, p) ==
    [s EXCEPT
      !.rts     = [@ EXCEPT ![p] = (@ \ {"SENDING", "RECEIVING"}) \cup {"NO_ENDPOINT"}],
      !.callerq = [d \in Slot |->
                     IF "SENDING" \in s.rts[p] /\ s.sendto[p][1] = d
                     THEN Unlink(@[d], p) ELSE @[d]],
      !.notes   = [q \in 0..NR_PROCS |-> @[q] \ {Id(p)}],
      !.size[p] = FALSE]

(* The dying process leaves the queue it waits in. Who waits for it goes   *)
(* on with an error, and stays in its queue, which nobody reads any more.  *)
clear_endpoint(s, p) ==
    LET waitsfor(q, flag, e) == IF flag \in s.rts[q] /\ e = Ep(p) THEN {flag} ELSE {}
    IN  [s EXCEPT
          !.rts     = [q \in Slot |->
             IF q = p THEN (@[q] \ {"SENDING", "RECEIVING"}) \cup {"NO_ENDPOINT"}
             ELSE IF "SLOT_FREE" \in @[q] THEN @[q]
             ELSE @[q] \ (waitsfor(q, "RECEIVING", s.getfrom[q])
                            \cup waitsfor(q, "SENDING", s.sendto[q]))],
          !.callerq = [d \in Slot |->
             IF "SENDING" \in s.rts[p] /\ s.sendto[p][1] = d
             THEN Unlink(@[d], p) ELSE @[d]],
          !.notes   = [q \in 0..NR_PROCS |->
             IF \E r \in Slot : Priv(r) = q /\ "SLOT_FREE" \notin s.rts[r]
             THEN @[q] \ {Id(p)} ELSE @[q]],
          !.size    = [q \in Slot |-> @[q] /\ ~(q = p /\ p \in sys)]]

(* sys_kill() with SIGKILL.                                                *)
Kill(p) ==
    /\ p \notin Unkillable /\ "SLOT_FREE" \notin pt.rts[p]
    /\ \E c \in sys : c # p /\ Running(c)
    /\ pt' = clear_endpoint(pt, p)
    /\ UNCHANGED <<gen, sys>>

(* sys_exit(), by PM or by a system process for itself.                    *)
Exit(p) ==
    /\ p \notin Unkillable /\ "SLOT_FREE" \notin pt.rts[p]
    /\ Running(PM) \/ (p \in sys /\ Running(p))
    /\ LET s == clear_endpoint(pt, p)
       IN  pt' = [s EXCEPT !.rts[p] = {"SLOT_FREE"}]
    /\ sys' = sys \ {p}
    /\ UNCHANGED gen

(* sys_fork(), by PM while the parent waits for the answer to its call.    *)
(* The child is a copy of the parent, with a new endpoint and without the  *)
(* privileges. (A child that becomes a system process executes a program   *)
(* with an empty table of asynchronous messages.)                          *)
MayFork(pp, c) ==
    /\ MapThenSumSet(LAMBDA p : gen[p], Slot) < MaxForks
    /\ Running(PM) /\ "SLOT_FREE" \in pt.rts[c]
    /\ "SLOT_FREE" \notin pt.rts[pp] /\ "RECEIVING" \in pt.rts[pp]
    /\ "SENDING" \notin pt.rts[pp] /\ pt.getfrom[pp] = Ep(PM) /\ pt.reply[pp]
    /\ pt.callerq[pp] # <<>> => "fork_queued" \in Rare

Fork(pp, c) ==
    /\ MayFork(pp, c)
    /\ pt' = [pt EXCEPT
                !.rts[c]     = pt.rts[pp] \cup (IF pp \in sys THEN {"NO_PRIV"} ELSE {}),
                !.getfrom[c] = pt.getfrom[pp], !.sendto[c] = pt.sendto[pp],
                !.callerq[c] = pt.callerq[pp], !.reply[c]  = pt.reply[pp],
                !.asyn[c]    = pt.asyn[pp],    !.dmsg[c]   = pt.dmsg[pp],
                !.tab[c]     = <<>>]
    /\ gen' = [gen EXCEPT ![c] = @ + 1]
    /\ sys' = sys \ {c}

(* sys_privctl() SYS_PRIV_SET_SYS and SYS_PRIV_ALLOW.                      *)
SetSys(p) ==
    /\ "NO_PRIV" \in pt.rts[p] /\ p \notin sys
    /\ \E c \in sys : Running(c)
    /\ sys' = sys \cup {p}
    /\ pt' = [pt EXCEPT !.notes[p] = {}, !.size[p] = FALSE]
    /\ UNCHANGED gen

Allow(p) ==
    /\ "NO_PRIV" \in pt.rts[p]
    /\ \E c \in sys : Running(c)
    /\ pt' = [pt EXCEPT !.rts[p] = @ \ {"NO_PRIV"}]
    /\ UNCHANGED <<gen, sys>>

-----------------------------------------------------------------------------
Init ==
    /\ pt = [rts     |-> [p \in Slot |-> IF p \in Booted THEN {} ELSE {"SLOT_FREE"}],
             getfrom |-> [p \in Slot |-> ANY],
             sendto  |-> [p \in Slot |-> ANY],
             callerq |-> [p \in Slot |-> <<>>],
             reply   |-> [p \in Slot |-> FALSE],
             asyn    |-> [p \in Slot |-> FALSE],
             dmsg    |-> [p \in Slot |-> NoMsg],
             notes   |-> [p \in 0..NR_PROCS |-> {}],
             tab     |-> [p \in Slot |-> <<>>],
             size    |-> [p \in Slot |-> FALSE]]
    /\ gen = [p \in Slot |-> 0]
    /\ sys = SysProcs

Trap(p) ==
    \/ \E e \in Peers : Send(p, e)
    \/ \E e \in Peers : Sendnb(p, e)
    \/ \E e \in Peers : Sendrec(p, e)
    \/ \E e \in Peers \cup {ANY} : Receive(p, e)
    \/ \E e \in Peers : Notify(p, e)
    \/ \E e \in Peers, noreply \in BOOLEAN : Senda(p, e, noreply)

Next ==
    \/ \E p \in Slot : Trap(p) \/ DeliverMsg(p) \/ Interrupt(p)
    \/ \E p \in Slot : Kill(p) \/ Exit(p) \/ SetSys(p) \/ Allow(p)
    \/ \E pp, c \in Slot : Fork(pp, c)

Spec == Init /\ [][Next]_vars

-----------------------------------------------------------------------------
Alive(p)   == pt.rts[p] \cap {"SLOT_FREE", "NO_ENDPOINT"} = {}
Message    == [src : Endpoint \cup {ANY}, dst : Endpoint \cup {ANY},
               kind : {"none", "send", "senda", "noreply", "notify"}]
AsynEntry  == [dst : Slot \X Nat, noreply : BOOLEAN, done : BOOLEAN]

(* The shape of the process table, and who has which privileges.           *)
TypeOK ==
    /\ pt = [rts |-> pt.rts, getfrom |-> pt.getfrom, sendto |-> pt.sendto,
             callerq |-> pt.callerq, reply |-> pt.reply, asyn |-> pt.asyn,
             dmsg |-> pt.dmsg, notes |-> pt.notes, tab |-> pt.tab,
             size |-> pt.size]
    /\ pt.rts \in [Slot -> SUBSET {"SENDING", "RECEIVING", "SLOT_FREE",
                                   "NO_ENDPOINT", "NO_PRIV"}]
    /\ pt.getfrom \in [Slot -> (Slot \X Nat) \cup {ANY}]
    /\ pt.sendto  \in [Slot -> (Slot \X Nat) \cup {ANY}]
    /\ pt.callerq \in [Slot -> Seq(Slot)]
    /\ pt.reply \in [Slot -> BOOLEAN] /\ pt.asyn \in [Slot -> BOOLEAN]
    /\ pt.dmsg \in [Slot -> Message]
    /\ pt.notes \in [0..NR_PROCS -> SUBSET (0..(NR_PROCS + 1))]
    /\ pt.tab \in [Slot -> Seq(AsynEntry)]
    /\ pt.size \in [Slot -> BOOLEAN]
    /\ gen \in [Slot -> Nat]
    /\ sys \subseteq Slot

(* clear_endpoint() takes a process out of the queue of the process it     *)
(* sends to and stops at the first entry, as it "can only be queued once". *)
(* The processes queued at a living process are those that are blocked     *)
(* sending to it, each of them once.                                       *)
CallerQueuesOK ==
    \A d \in Slot : Alive(d) =>
        /\ IsInjective(pt.callerq[d])
        /\ \A p \in Slot : Linked(pt.callerq[d], p)
                             <=> "SENDING" \in pt.rts[p] /\ pt.sendto[p] = Ep(d)

(* okendpt() panics when a process that waits names an endpoint that is    *)
(* gone: deadlock() and clear_endpoint() rely on it. Nobody waits for a    *)
(* process that died or for an earlier occupant of a slot, and no          *)
(* notification is pending from one.                                       *)
WaitsForLiving ==
    /\ \A p \in Slot : Waits(pt, p) =>
          /\ Alive(p)
          /\ WaitsOn(pt, p) = ANY \/
             (Alive(WaitsOn(pt, p)[1]) /\ gen[WaitsOn(pt, p)[1]] = WaitsOn(pt, p)[2])
    /\ \A p \in sys : \A n \in pt.notes[p] :
          n = Id(HARDWARE) \/ (Alive(n - 1) /\ n - 1 \in sys)

(* What deadlock() is for: there is no set of processes that each wait for *)
(* a message to or from another one of the set. deadlock() itself would    *)
(* never return when such a set existed.                                   *)
NoWaitCycle ==
    \A S \in SUBSET Slot \ {{}} :
        \E p \in S : \/ ~Waits(pt, p) \/ WaitsOn(pt, p) = ANY
                     \/ WaitsOn(pt, p)[1] \notin S

(* A process is not blocked in mini_receive() while a message it would     *)
(* take is there: a sender in its queue or, unless it is in a SENDREC      *)
(* (which looks for messages only if its own was taken at once), an entry  *)
(* of a table of asynchronous messages whatever MF_ASYNMSG says, or, for   *)
(* RECEIVE from ANY, a notification.                                       *)
NoMissedMessage ==
    \A p \in Slot : "RECEIVING" \in pt.rts[p] /\ "SENDING" \notin pt.rts[p] =>
        LET e == pt.getfrom[p]
        IN  /\ Callers(pt, p, e) = {}
            /\ ~pt.reply[p] => \A x \in Slot : From(e, x) => Ready(pt, x, p) = {}
            /\ e = ANY => Notified(pt, p, e) = {}

(* The assertions on MF_DELIVERMSG: the message of a process that has not  *)
(* run yet is not overwritten, and it was meant for this process, not for  *)
(* an earlier occupant of its slot.                                        *)
DeliveredOnce ==
    \A p \in Slot : Alive(p) =>
        /\ "RECEIVING" \in pt.rts[p] => pt.dmsg[p] = NoMsg
        /\ pt.dmsg[p] # NoMsg => pt.dmsg[p].dst = Ep(p)

(* "A flag is set so that notifications cannot interrupt SENDREC." A       *)
(* process in SENDREC goes on only with a message from its peer that may   *)
(* be the answer, or when one of the two dies.                             *)
Answered(p) ==
    pt.reply[p] /\ "RECEIVING" \in pt.rts[p] /\ "RECEIVING" \notin pt'.rts[p] =>
        \/ /\ "SENDING" \notin pt.rts[p]
           /\ pt'.dmsg[p].src = pt.getfrom[p]
           /\ pt'.dmsg[p].kind \in {"send", "senda"}
        \/ "NO_ENDPOINT" \in pt'.rts[pt.getfrom[p][1]]
        \/ "SLOT_FREE" \in pt'.rts[pt.getfrom[p][1]]
        \/ ~Alive(p)'
SendrecAnswered == [][\A p \in Slot : Answered(p)]_vars

-----------------------------------------------------------------------------
(* What the flags of a process mean to its program.                        *)
Doing(p) ==
    LET has(flag) == flag \in pt.rts[p]
    IN  IF has("SLOT_FREE") THEN "free"
        ELSE IF has("NO_ENDPOINT") THEN "dead"
        ELSE IF has("SENDING") THEN IF has("RECEIVING") THEN "call" ELSE "send"
        ELSE IF has("RECEIVING") THEN IF pt.reply[p] THEN "await" ELSE "receive"
        ELSE "run"

Box(p) == IF Alive(p) THEN <<pt.dmsg[p].src, pt.dmsg[p].dst>> ELSE <<ANY, ANY>>

R == INSTANCE Rendezvous WITH
        None <- <<ANY, ANY>>, inc <- gen,
        op   <- [p \in Slot |-> Doing(p)],
        peer <- [p \in Slot |-> IF Alive(p) /\ Waits(pt, p) THEN WaitsOn(pt, p) ELSE ANY],
        box  <- [p \in Slot |-> Box(p)]

(* sys_call() does no more and no less than message passing promises       *)
(* (Rendezvous), whatever the queues, maps and tables it is done with.     *)
ImplementsRendezvous == R!RSpec
=============================================================================
