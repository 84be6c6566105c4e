------------------------------- MODULE FdSpec -------------------------------
(***************************************************************************)
(* What the guest is promised of its descriptor tables: every call takes   *)
(* effect in one step between its start and its return, changes only the   *)
(* numbers it is about, and a new descriptor is the lowest free one.       *)
(***************************************************************************)
EXTENDS Naturals, Sequences, FiniteSetsExt, Functions

CONSTANTS Process, Task, ProcessOf, Fd, File

VARIABLES
    tbl,    \* tbl[p]: the open descriptors of p and the files they denote
    call,   \* call[t]: the change the call of thread t is to make
    mail    \* the file a message in flight carries

LowestFree(s, min) == Min({d \in Fd : d >= min /\ d \notin DOMAIN s})
Bind(s, d, f) == [x \in DOMAIN s \cup {d} |-> IF x = d THEN f ELSE s[x]]
Unbind(s, ds) == [x \in DOMAIN s \ ds |-> s[x]]

NoCall == [how |-> "none", fd |-> 0, files |-> <<>>]

\* A file no table and no call refers to.
Unused(f) ==
    /\ \A p \in Process : f \notin Range(tbl[p])
    /\ \A t \in Task : f \notin Range(call[t].files)

FdInit ==
    /\ tbl \in [Process -> {<<>>} \cup {[d \in {0} |-> f] : f \in File}]
    /\ call = [t \in Task |-> NoCall] /\ mail = {}

\* open makes a new file, pipe2 two; dup, F_DUPFD and dup3 take one that is open, recvmsg
\* the one it is sent.
Request(t, c) ==
    \/ c.how = "erase" /\ c.files = <<>>
    \/ /\ c.how \in {"emplace", "set"} /\ Len(c.files) = 1
       /\ Unused(c.files[1]) \/ c.files[1] \in Range(tbl[ProcessOf[t]]) \cup mail
    \/ /\ c.how = "emplace" /\ Len(c.files) = 2 /\ c.files[1] # c.files[2]
       /\ Unused(c.files[1]) /\ Unused(c.files[2])

Starts(t) ==
    /\ call[t] = NoCall /\ Request(t, call'[t])
    /\ \A u \in Task \ {t} : call'[u] = call[u]
    /\ mail' \in {mail, {}} /\ UNCHANGED tbl

\* The table the call of t leaves, of a table s.
Effect(c, s) ==
    LET d == LowestFree(s, c.fd)
    IN  CASE c.how = "set" -> Bind(s, c.fd, c.files[1])
          [] c.how = "erase" -> Unbind(s, {c.fd})
          [] c.how = "emplace" /\ Len(c.files) = 1 -> Bind(s, d, c.files[1])
          [] c.how = "emplace" /\ Len(c.files) = 2 ->
               Bind(Bind(s, d, c.files[1]), LowestFree(s, d + 1), c.files[2])

\* The bound on Fd: a table has a number for what is put in it.
Room(c, s) ==
    c.how = "emplace" => Cardinality({d \in Fd \ DOMAIN s : d >= c.fd}) >= Len(c.files)

Returns(t) ==
    /\ call[t] # NoCall /\ call'[t] = NoCall /\ Room(call[t], tbl[ProcessOf[t]])
    /\ tbl' = [tbl EXCEPT ![ProcessOf[t]] = Effect(call[t], @)]
    /\ \A u \in Task \ {t} : call'[u] = call[u]
    /\ UNCHANGED mail

\* A message leaves with a file.
Sends == mail = {} /\ UNCHANGED <<tbl, call>>

\* exec closes some descriptors, exit all of them; neither leaves a call behind.
Closes(p) ==
    /\ \A t \in Task : ProcessOf[t] = p => call[t] = NoCall
    /\ \E ds \in SUBSET DOMAIN tbl[p] : tbl' = [tbl EXCEPT ![p] = Unbind(@, ds)]
    /\ UNCHANGED <<call, mail>>

\* fork: the child starts with its parent's table.
Inherit(p, q) ==
    /\ tbl[q] = <<>> /\ tbl' = [tbl EXCEPT ![q] = tbl[p]]
    /\ UNCHANGED <<call, mail>>

FdNext ==
    \/ Sends
    \/ \E t \in Task : Starts(t) \/ Returns(t)
    \/ \E p \in Process : Closes(p) \/ \E q \in Process : Inherit(p, q)

FdPromise == FdInit /\ [][FdNext]_<<tbl, call, mail>>
=============================================================================
