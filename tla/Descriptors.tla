---------------------------- MODULE Descriptors ----------------------------
(***************************************************************************)
(* The descriptor tables of guest processes (SharedState::fds and the      *)
(* calls of fd_ops.cpp, file_io.cpp, fs.cpp, process.cpp that use them).   *)
(*                                                                         *)
(* A table is an immutable snapshot; a call that changes it copies the     *)
(* snapshot it loaded and swaps the copy in with a compare-and-swap that   *)
(* starts over when it fails.  A handle (an Fd object) owns one host       *)
(* descriptor and is named here by that descriptor's number.  It is shared *)
(* by the tables and by the threads that looked it up; when the last of    *)
(* them lets go, the host descriptor is closed and its number is free for  *)
(* whoever asks the host next.                                             *)
(***************************************************************************)
EXTENDS Naturals, FiniteSetsExt, Functions, Sequences

CONSTANTS
    Process,    \* guest processes
    FirstProcess, \* the one that exists initially
    Task,       \* guest threads
    ProcessOf,  \* ProcessOf[t]: the process of thread t
    Floor,      \* the minimums F_DUPFD is called with
    Fd,         \* guest descriptors: an initial segment of the naturals
    Host,       \* host descriptors: an initial segment of the naturals
    File,       \* open files 1..n, in the order they are opened
    Master,     \* the files that are masters of a pseudo-terminal
    Quota       \* bound: the numbers of calls the threads may make, tried one by one

VARIABLES
    table,      \* table[p]: the snapshot in force, guest fd -> handle
    file,       \* file[n]: the open file host descriptor n refers to, or last did
    cloexec,    \* the handles whose cloexec is set
    opened,     \* files opened so far
    hungup,     \* masters that sent their hang-up and left /dev/pts
    mail,       \* the files of the message in flight between sockets (SCM_RIGHTS)
    living,     \* processes that exist
    calls,      \* calls each thread may still make
    th          \* th[t]: where thread t is in its call, and the call's locals

fdVars == <<table, file, cloexec, opened, hungup, mail, living, calls, th>>

\* how: the change fds_mutate applies; new: the handles to put in the table; held: the
\* handles looked up; bare: a host descriptor used without holding its handle; was: the
\* file a blocking call is about; kid: the child a fork makes.
Ready == [pc |-> "run", how |-> "none", fd |-> 0, new |-> <<>>, held |-> {},
          bare |-> 0, was |-> 0, snap |-> <<>>, kid |-> FirstProcess]

FdInit ==
    /\ table = [p \in Process |-> IF p = FirstProcess THEN [d \in {0} |-> 0] ELSE <<>>]
    /\ file = [n \in Host |-> IF n = 0 THEN 1 ELSE 0]
    /\ cloexec = {} /\ opened = 1 /\ hungup = {} /\ mail = {} /\ living = {FirstProcess}
    /\ calls \in Quota
    /\ th = [t \in Task |-> Ready]

---------------------------------------------------------------------------
(* Handles and snapshots *)

Table(t) == table[ProcessOf[t]]

Bind(s, d, n) == [x \in DOMAIN s \cup {d} |-> IF x = d THEN n ELSE s[x]]
Unbind(s, d) == [x \in DOMAIN s \ {d} |-> s[x]]
LowestFree(s, min) == Min({d \in Fd : d >= min /\ d \notin DOMAIN s})

\* The handles somebody refers to: a table, a thread that looked one up or made one, a
\* snapshot a thread goes through.
InUse ==
    UNION {Range(table[p]) : p \in Process}
    \cup UNION {th[t].held \cup Range(th[t].new) \cup Range(th[t].snap) : t \in Task}

\* The k-th host descriptor the host would hand out now, lowest first.
NewHost(k) ==
    CHOOSE n \in Host \ InUse : Cardinality({m \in Host \ InUse : m < n}) = k - 1
HostFree(k) == Cardinality(Host \ InUse) >= k

\* A thread starts a call.
Calls(t) ==
    /\ th[t].pc = "run" /\ calls[t] > 0 /\ ProcessOf[t] \in living
    /\ calls' = [calls EXCEPT ![t] = @ - 1]

SetTh(t, r) == th' = [th EXCEPT ![t] = r]

\* HostFd and DevFd on_close, of handles that are all still referred to: the last handle
\* of a master takes the terminal out of /dev/pts and hangs it up.
LastOfMaster(n) == file[n] \in Master /\ \A m \in InUse \ {n} : file[m] # file[n]
OnClose(ns) == hungup' = hungup \cup {file[n] : n \in {m \in ns : LastOfMaster(m)}}

---------------------------------------------------------------------------
(* fds_mutate: fds_emplace, the pair of pipe2, the replacement of dup3, the erasure of
   close *)

Changed(r) ==
    CASE r.how = "emplace" -> Bind(r.snap, LowestFree(r.snap, r.fd), r.new[1])
      [] r.how = "pair" ->
           LET d == LowestFree(r.snap, 0)
           IN  Bind(Bind(r.snap, d, r.new[1]), LowestFree(r.snap, d + 1), r.new[2])
      [] r.how = "set" -> Bind(r.snap, r.fd, r.new[1])
      [] r.how = "erase" -> Unbind(r.snap, r.fd)

\* The bound on Fd: the code's table has no limit.
Room(r) == r.how = "set" \/ Cardinality({d \in Fd \ DOMAIN r.snap : d >= r.fd}) >= Len(r.new)

LoadSnapshot(t) ==
    /\ th[t].pc = "load"
    /\ SetTh(t, [th[t] EXCEPT !.pc = "swap", !.snap = Table(t)])
    /\ UNCHANGED <<table, file, cloexec, opened, mail, hungup, living, calls>>

\* Mutant: the copy is stored whatever the table has become.
SwapBlindly(t) ==
    /\ th[t].pc = "swap" /\ Room(th[t])
    /\ table' = [table EXCEPT ![ProcessOf[t]] = Changed(th[t])]
    /\ SetTh(t, Ready)
    /\ UNCHANGED <<file, cloexec, opened, mail, hungup, living, calls>>

Swap(t) ==
    /\ th[t].pc = "swap" /\ Room(th[t])
    /\ IF Table(t) = th[t].snap
       THEN /\ table' = [table EXCEPT ![ProcessOf[t]] = Changed(th[t])]
            /\ SetTh(t, Ready)
       ELSE SetTh(t, [th[t] EXCEPT !.snap = Table(t)]) /\ UNCHANGED table
    /\ UNCHANGED <<file, cloexec, opened, mail, hungup, living, calls>>

---------------------------------------------------------------------------
(* Calls that make descriptors *)

\* The host opens k files; their handles are the thread's until they are in the table.
HostOpen(t, k, how, x) ==
    /\ Calls(t) /\ HostFree(k) /\ opened + k \in File
    /\ LET ns == [i \in 1..k |-> NewHost(i)]
       IN  /\ file' = [n \in Host |-> IF n \in Range(ns)
                          THEN opened + (CHOOSE i \in 1..k : ns[i] = n) ELSE file[n]]
           /\ cloexec' = IF x THEN cloexec \cup Range(ns) ELSE cloexec \ Range(ns)
           /\ SetTh(t, [Ready EXCEPT !.pc = "load", !.how = how, !.new = ns])
    /\ opened' = opened + k
    /\ UNCHANGED <<table, hungup, mail, living>>

\* openat, and the calls that make an event or a socket descriptor.
Openat(t, x) == HostOpen(t, 1, "emplace", x)
Eventfd2(t, x) == HostOpen(t, 1, "emplace", x)
Socket(t, x) == HostOpen(t, 1, "emplace", x)
EpollCreate1(t, x) == HostOpen(t, 1, "emplace", x)

\* Two descriptors in one change of the table.
Pipe2(t, x) == HostOpen(t, 2, "pair", x)
Socketpair(t, x) == HostOpen(t, 2, "pair", x)

\* Look d up and clone its handle: a new host descriptor for the same file.
Cloned(t, d, x, r) ==
    /\ Calls(t) /\ d \in DOMAIN Table(t) /\ HostFree(1)
    /\ file' = [file EXCEPT ![NewHost(1)] = file[Table(t)[d]]]
    /\ cloexec' = IF x THEN cloexec \cup {NewHost(1)} ELSE cloexec \ {NewHost(1)}
    /\ SetTh(t, [r EXCEPT !.new = <<NewHost(1)>>, !.held = {Table(t)[d]}])
    /\ UNCHANGED <<table, opened, mail, hungup, living>>

\* dup (min 0), F_DUPFD and F_DUPFD_CLOEXEC
Dup(t, d, min, x) ==
    Cloned(t, d, x, [Ready EXCEPT !.pc = "load", !.how = "emplace", !.fd = min])

Dup3(t, d, e, x) ==
    d # e /\ Cloned(t, d, x, [Ready EXCEPT !.pc = "displace", !.how = "set", !.fd = e])

\* ... which closes what the target number denotes, before it takes the number.
Displace(t) ==
    /\ th[t].pc = "displace"
    /\ LET old == {Table(t)[d] : d \in DOMAIN Table(t) \cap {th[t].fd}}
       IN  /\ OnClose(old)
           /\ SetTh(t, [th[t] EXCEPT !.pc = "load", !.held = @ \cup old])
    /\ UNCHANGED <<table, file, cloexec, opened, mail, living, calls>>

---------------------------------------------------------------------------
(* Calls on a descriptor *)

\* A call on a number that is not in the table, or for which the host has no
\* descriptor left, fails and changes nothing.
Fails(t) ==
    /\ Calls(t) /\ (Fd \ DOMAIN Table(t) # {} \/ ~HostFree(1))
    /\ UNCHANGED <<table, file, cloexec, opened, mail, hungup, living, th>>

\* close: look the handle up, ...
Close(t, d) ==
    /\ Calls(t) /\ d \in DOMAIN Table(t)
    /\ SetTh(t, [Ready EXCEPT !.pc = "closing", !.how = "erase", !.fd = d,
                              !.held = {Table(t)[d]}])
    /\ UNCHANGED <<table, file, cloexec, opened, mail, hungup, living>>

\* ... then on_close, then the erasure of the number.
Closing(t) ==
    /\ th[t].pc = "closing"
    /\ OnClose(th[t].held)
    /\ SetTh(t, [th[t] EXCEPT !.pc = "load"])
    /\ UNCHANGED <<table, file, cloexec, opened, mail, living, calls>>

\* F_SETFD
SetFd(t, d, x) ==
    /\ Calls(t) /\ d \in DOMAIN Table(t)
    /\ cloexec' = IF x THEN cloexec \cup {Table(t)[d]} ELSE cloexec \ {Table(t)[d]}
    /\ UNCHANGED <<table, file, opened, mail, hungup, living, th>>

\* A host call about descriptors ds: it may block, with the handles held.
HostCall(t, pc, ds) ==
    /\ Calls(t) /\ ds \subseteq DOMAIN Table(t)
    /\ LET n == Table(t)[Min(ds)]
       IN  SetTh(t, [Ready EXCEPT !.pc = pc, !.bare = n, !.was = file[n],
                                  !.held = {Table(t)[d] : d \in ds}])
    /\ UNCHANGED <<table, file, cloexec, opened, mail, hungup, living>>

\* A host call that is given the host number only.
HostCallUnheld(t, pc, d) ==
    /\ Calls(t) /\ d \in DOMAIN Table(t)
    /\ LET n == Table(t)[d]
       IN  SetTh(t, [Ready EXCEPT !.pc = pc, !.bare = n, !.was = file[n]])
    /\ UNCHANGED <<table, file, cloexec, opened, mail, hungup, living>>

\* Mutant: the handle is let go before the host call.
ReadUnheld(t, d) == HostCallUnheld(t, "io", d)

\* read and write
Read(t, d) == HostCall(t, "io", {d})
\* readv, writev, pread64, pwrite64, fsync and fdatasync
ReadAt(t, d) == HostCall(t, "io", {d})
Sendfile(t, d, e) == HostCall(t, "io", {d, e})
\* bind, listen, connect and shutdown
ConnectSocket(t, d) == HostCall(t, "io", {d})
\* sendto and recvfrom
Recvfrom(t, d) == HostCall(t, "io", {d})
\* setsockopt, getsockopt, getsockname and getpeername
Sockopt(t, d) == HostCall(t, "io", {d})
EpollCtl(t, d, e) == HostCall(t, "io", {d, e})
EpollPwait(t, d) == HostCall(t, "io", {d})

\* accept4 waits with the listener held ...
Accept4(t, d) == HostCall(t, "accept", {d})

\* ... and puts the connection's descriptor in the table.
Accepted(t, x) ==
    /\ th[t].pc = "accept" /\ HostFree(1) /\ opened + 1 \in File
    /\ opened' = opened + 1 /\ file' = [file EXCEPT ![NewHost(1)] = opened + 1]
    /\ cloexec' = IF x THEN cloexec \cup {NewHost(1)} ELSE cloexec \ {NewHost(1)}
    /\ SetTh(t, [Ready EXCEPT !.pc = "load", !.how = "emplace", !.new = <<NewHost(1)>>,
                              !.held = th[t].held])
    /\ UNCHANGED <<table, mail, hungup, living, calls>>

\* poll and ppoll translate each number and drop the handle again; so does pselect6.
PollCall(t, d) == HostCallUnheld(t, "poll", d)
Pselect6(t, d) == HostCallUnheld(t, "poll", d)

IoDone(t) ==
    /\ th[t].pc \in {"io", "accept", "poll"}
    /\ SetTh(t, Ready)
    /\ UNCHANGED <<table, file, cloexec, opened, mail, hungup, living, calls>>

\* sendmsg with SCM_RIGHTS translates the number it sends and drops the handle; ...
Sendmsg(t, d) == HostCallUnheld(t, "send", d) /\ file[Table(t)[d]] \notin Master

\* ... the host sends the file behind the host descriptor, if there still is one.
Sent(t) ==
    /\ th[t].pc = "send" /\ mail = {}
    /\ mail' = {file[n] : n \in {th[t].bare} \cap InUse} \ Master
    /\ SetTh(t, Ready)
    /\ UNCHANGED <<table, file, cloexec, opened, hungup, living, calls>>

\* recvmsg: the host has installed the descriptor; a plain handle goes in the table.
Recvmsg(t) ==
    /\ Calls(t) /\ mail # {} /\ HostFree(1)
    /\ file' = [file EXCEPT ![NewHost(1)] = CHOOSE f \in mail : TRUE]
    /\ cloexec' = cloexec \ {NewHost(1)} /\ mail' = {}
    /\ SetTh(t, [Ready EXCEPT !.pc = "load", !.how = "emplace", !.new = <<NewHost(1)>>])
    /\ UNCHANGED <<table, opened, hungup, living>>

---------------------------------------------------------------------------
(* Processes *)

\* fork goes through the snapshot of its start ...
ForkStart(t, q) ==
    /\ q \notin living /\ Calls(t)
    /\ \A u \in Task : th[u].kid # q /\ (ProcessOf[u] = q => calls[u] > 0)    \* q is new
    /\ SetTh(t, [Ready EXCEPT !.pc = "fork", !.kid = q, !.snap = Table(t)])
    /\ UNCHANGED <<table, file, cloexec, opened, mail, hungup, living>>

\* Mutant: the child's table is the parent's snapshot, as the copy of SharedState has it.
ForkShared(t) ==
    /\ th[t].pc = "fork" /\ HostFree(Cardinality(DOMAIN th[t].snap))
    /\ table' = [table EXCEPT ![th[t].kid] = th[t].snap]
    /\ living' = living \cup {th[t].kid}
    /\ SetTh(t, Ready)
    /\ UNCHANGED <<file, cloexec, opened, mail, hungup, calls>>

\* ... and gives the child a clone of each handle, with its cloexec.
ForkClone(t) ==
    /\ th[t].pc = "fork" /\ HostFree(Cardinality(DOMAIN th[t].snap))
    /\ LET s == th[t].snap
           new == [d \in DOMAIN s |-> NewHost(1 + Cardinality({e \in DOMAIN s : e < d}))]
           of(n) == s[CHOOSE d \in DOMAIN s : new[d] = n]
       IN  /\ table' = [table EXCEPT ![th[t].kid] = new]
           /\ file' = [n \in Host |-> IF n \in Range(new) THEN file[of(n)] ELSE file[n]]
           /\ cloexec' = (cloexec \ Range(new)) \cup {n \in Range(new) : of(n) \in cloexec}
    /\ living' = living \cup {th[t].kid}
    /\ SetTh(t, Ready)
    /\ UNCHANGED <<opened, mail, hungup, calls>>

\* The host runs out of descriptors: fork fails, the clones made are dropped.
ForkFailed(t) ==
    /\ th[t].pc = "fork" /\ ~HostFree(Cardinality(DOMAIN th[t].snap))
    /\ SetTh(t, Ready)
    /\ UNCHANGED <<table, file, cloexec, opened, mail, hungup, living, calls>>

\* The siblings of an exec or of the last thread of a process have left their calls.
Alone(t) == \A u \in Task : ProcessOf[u] = ProcessOf[t] => th[u].pc = "run"

\* execve ends the siblings, then keeps the handles without cloexec.
Execve(t) ==
    /\ Alone(t) /\ th[t].pc = "run" /\ calls[t] > 0 /\ ProcessOf[t] \in living
    /\ calls' = [u \in Task |-> IF u = t THEN calls[t] - 1
                                  ELSE IF ProcessOf[u] = ProcessOf[t] THEN 0 ELSE calls[u]]
    /\ LET s == Table(t)
           kept == {d \in DOMAIN s : s[d] \notin cloexec}
       IN  /\ OnClose({s[d] : d \in DOMAIN s \ kept})
           /\ table' = [table EXCEPT ![ProcessOf[t]] = [d \in kept |-> s[d]]]
    /\ UNCHANGED <<file, cloexec, opened, mail, living, th>>

\* fini of the last thread
ExitProcess(t) ==
    /\ Alone(t) /\ th[t].pc = "run" /\ calls[t] > 0 /\ ProcessOf[t] \in living
    /\ calls' = [u \in Task |-> IF ProcessOf[u] = ProcessOf[t] THEN 0 ELSE calls[u]]
    /\ OnClose(Range(Table(t)))
    /\ table' = [table EXCEPT ![ProcessOf[t]] = <<>>]
    /\ living' = living \ {ProcessOf[t]}
    /\ UNCHANGED <<file, cloexec, opened, mail, th>>

TableStep(t) == LoadSnapshot(t) \/ Swap(t) \/ Displace(t) \/ Closing(t) \/ Fails(t)

MakeStep(t) ==
    \/ \E x \in BOOLEAN : \/ Openat(t, x) \/ Eventfd2(t, x) \/ Socket(t, x)
                         \/ EpollCreate1(t, x) \/ Pipe2(t, x) \/ Socketpair(t, x)
                         \/ Accepted(t, x)
    \/ \E d, e \in Fd, x \in BOOLEAN : Dup3(t, d, e, x)
    \/ \E d \in Fd, min \in Floor, x \in BOOLEAN : Dup(t, d, min, x)

CallStep(t) ==
    \/ \E d \in Fd : \/ Close(t, d) \/ SetFd(t, d, TRUE) \/ SetFd(t, d, FALSE)
                    \/ Read(t, d) \/ ReadAt(t, d) \/ ConnectSocket(t, d) \/ Recvfrom(t, d)
                    \/ Sockopt(t, d) \/ EpollPwait(t, d) \/ Accept4(t, d)
                    \/ PollCall(t, d) \/ Pselect6(t, d)
                    \/ Sendmsg(t, d)
    \/ \E d, e \in Fd : Sendfile(t, d, e) \/ EpollCtl(t, d, e)
    \/ IoDone(t) \/ Sent(t) \/ Recvmsg(t)

ProcessStep(t) ==
    \/ \E q \in Process : ForkStart(t, q)
    \/ ForkClone(t) \/ ForkFailed(t) \/ Execve(t) \/ ExitProcess(t)

FdNext == \E t \in Task : TableStep(t) \/ MakeStep(t) \/ CallStep(t) \/ ProcessStep(t)

FdTableSpec == FdInit /\ [][FdNext]_fdVars

---------------------------------------------------------------------------
(* Properties *)

\* Tables lead from guest numbers to host descriptors, and only a pseudo-terminal master
\* is ever hung up (DevFd::on_close).
FdTypeOK ==
    /\ \A p \in Process : DOMAIN table[p] \subseteq Fd /\ Range(table[p]) \subseteq Host
    /\ \A n \in Host : file[n] \in File \cup {0}
    /\ cloexec \subseteq Host /\ opened \in File /\ hungup \subseteq Master
    /\ living \subseteq Process

\* The handle two threads see behind a number is the one the calls put there: the swap of
\* fds_mutate makes each call take effect at once, however their loads and swaps
\* interleave, a number is never handed out twice, and a fork copies the table of one
\* moment.
Pending(t) ==
    LET r == th[t]
    IN  [how |-> IF r.how = "pair" THEN "emplace"
                 ELSE IF r.how \in {"none", "fork"} THEN "none" ELSE r.how,
         fd |-> r.fd, files |-> [i \in DOMAIN r.new |-> file[r.new[i]]]]

Files(s) == [d \in DOMAIN s |-> file[s[d]]]

Promise == INSTANCE FdSpec WITH
    tbl <- [p \in Process |->
              IF \E t \in Task : th[t].pc = "fork" /\ th[t].kid = p
              THEN Files(th[CHOOSE t \in Task : th[t].pc = "fork" /\ th[t].kid = p].snap)
              ELSE Files(table[p])],
    call <- [t \in Task |-> Pending(t)]

FdPromise == Promise!FdPromise

\* A call that blocks in the host is, until it returns, on the file it was started on:
\* closing the number, or giving it to another file, does not free the host descriptor
\* under it ("持有返回值期间该 Fd 存活").
IoOnSameFile == \A t \in Task : th[t].pc \in {"io", "accept"} => file[th[t].bare] = th[t].was

\* No two descriptors, of one process or of two, share a handle: what a close or a
\* F_SETFD does to one is never seen through the other, and a fork leaves the child with
\* host descriptors of its own.
OwnHandles ==
    \A p, q \in Process : \A d \in DOMAIN table[p], e \in DOMAIN table[q] :
        table[p][d] = table[q][e] => p = q /\ d = e

\* A poll, and a message that carries a descriptor, is on the file it was started on.
PollOnSameFile == \A t \in Task : th[t].pc \in {"poll", "send"} => file[th[t].bare] = th[t].was

\* When the last descriptor of a master is gone, its hang-up has been sent and it has
\* left /dev/pts.
HangUpSent ==
    \A f \in Master : f <= opened /\ (\A n \in InUse : file[n] # f) => f \in hungup
=============================================================================
