----------------------------- MODULE RedisQueue -----------------------------
(***************************************************************************)
(* The AI page queue of internal/queue/redis.go: a Redis stream read       *)
(* through one consumer group, a sorted set of delayed messages that a     *)
(* mover puts back on the stream, a dead-letter stream, the set of         *)
(* cancelled jobs and the idempotency keys.  Every operator below is one   *)
(* Redis round trip; what runs between two of them belongs to the modules  *)
(* that extend this one.                                                   *)
(*                                                                         *)
(* Abstractions: a payload is its page and its attempt number (the fields  *)
(* the workers act on); a due time is a nondeterministic choice of which   *)
(* delayed messages are due; the stream is never trimmed, as in the code.  *)
(***************************************************************************)
EXTENDS Integers, Sequences, FiniteSets

CONSTANTS
    Jobs,         \* job identifiers
    NumPages,     \* AI pages of one job
    MaxAttempts,  \* JOB_MAX_ATTEMPTS
    Movers,       \* mover goroutines: one per running process
    Faults        \* which operations may fail in a way their caller ignores

FaultKinds ==
    {"DequeueAI", "IsCancelled", "IsIdemDone", "MarkIdemDone", "Ack",
     "EnqueueDelayed", "AddDLQ", "Exec", "Expiry", "Post", "Shutdown"}

ASSUME NumPagesAssumption == NumPages \in Nat \ {0}
ASSUME MaxAttemptsAssumption == MaxAttempts \in Nat \ {0}
ASSUME FaultsAssumption == Faults \subseteq FaultKinds

Page == Jobs \X (1..NumPages)
JobOf(p) == p[1]

Message == [page : Page, attempt : 1..MaxAttempts]

VARIABLES
    stream,     \* the stream's entries, oldest first
    cursor,     \* the group's last delivered entry
    pel,        \* the group's pending entries: delivered, not acknowledged
    delayed,    \* the ZSET of delayed messages
    dlq,        \* the messages put on the dead-letter stream
    cancelled,  \* the cancelled jobs
    idemDone,   \* the pages whose idempotency key exists
    batch       \* per mover: the due messages its last ZRANGEBYSCORE returned

queueVars == <<stream, cursor, pel, delayed, dlq, cancelled, idemDone, batch>>

QueueTypeOK ==
    /\ stream \in Seq(Message)
    /\ cursor \in 0..Len(stream)
    /\ pel \subseteq 1..cursor
    /\ delayed \subseteq Message /\ IsFiniteSet(delayed)
    /\ dlq \subseteq Message
    /\ cancelled \subseteq Jobs
    /\ idemDone \subseteq Page
    /\ batch \in [Movers -> SUBSET Message]
    /\ \A m \in Movers : IsFiniteSet(batch[m])

QueueInit ==
    /\ stream = <<>>
    /\ cursor = 0
    /\ pel = {}
    /\ delayed = {}
    /\ dlq = {}
    /\ cancelled = {}
    /\ idemDone = {}
    /\ batch = [m \in Movers |-> {}]

Unread == (cursor + 1)..Len(stream)

Enqueued(p) == \E i \in 1..Len(stream) : stream[i].page = p

-----------------------------------------------------------------------------
(* The operations, as effects on the part of the state each one touches.   *)

\* XADD of a page's first message.
EnqueueAI(p) ==
    /\ stream' = Append(stream, [page |-> p, attempt |-> 1])
    /\ UNCHANGED <<cursor, pel, delayed, dlq, cancelled, idemDone, batch>>

\* Faulty variant: the read does not advance the group's last delivered entry.
DequeueAIAgain ==
    /\ cursor < Len(stream)
    /\ pel' = pel \cup {cursor + 1}
    /\ UNCHANGED <<stream, cursor, delayed, dlq, cancelled, idemDone, batch>>

\* XREADGROUP ">" COUNT 1: the oldest entry never delivered to the group
\* becomes pending.
DequeueAI ==
    /\ cursor < Len(stream)
    /\ cursor' = cursor + 1
    /\ pel' = pel \cup {cursor + 1}
    /\ UNCHANGED <<stream, delayed, dlq, cancelled, idemDone, batch>>

\* XACK; on an error the entry stays pending and the caller goes on.
Ack(i) ==
    /\ \/ pel' = pel \ {i}
       \/ "Ack" \in Faults /\ pel' = pel
    /\ UNCHANGED <<stream, cursor, delayed, dlq, cancelled, idemDone, batch>>

\* ZADD of a payload: adding a member twice leaves one.
EnqueueDelayed(msg) ==
    /\ \/ delayed' = delayed \cup {msg}
       \/ "EnqueueDelayed" \in Faults /\ delayed' = delayed
    /\ UNCHANGED <<stream, cursor, pel, dlq, cancelled, idemDone, batch>>

\* SADD of the job.
CancelJob(j) ==
    /\ cancelled' = cancelled \cup {j}
    /\ UNCHANGED <<stream, cursor, pel, delayed, dlq, idemDone, batch>>

\* The answers SISMEMBER may give the caller, which reads an error as FALSE.
IsCancelled(j) ==
    {j \in cancelled} \cup (IF "IsCancelled" \in Faults THEN {FALSE} ELSE {})

AddDLQ(msg) ==
    /\ \/ dlq' = dlq \cup {msg}
       \/ "AddDLQ" \in Faults /\ dlq' = dlq
    /\ UNCHANGED <<stream, cursor, pel, delayed, cancelled, idemDone, batch>>

\* The answers EXISTS may give the caller, which reads an error as FALSE.
IsIdemDone(p) ==
    {p \in idemDone} \cup (IF "IsIdemDone" \in Faults THEN {FALSE} ELSE {})

MarkIdemDone(p) ==
    /\ \/ idemDone' = idemDone \cup {p}
       \/ "MarkIdemDone" \in Faults /\ idemDone' = idemDone
    /\ UNCHANGED <<stream, cursor, pel, delayed, dlq, cancelled, batch>>

\* The key's 24 hour time to live runs out.
IdemExpires(p) ==
    /\ "Expiry" \in Faults
    /\ p \in idemDone
    /\ idemDone' = idemDone \ {p}
    /\ UNCHANGED <<stream, cursor, pel, delayed, dlq, cancelled, batch>>

-----------------------------------------------------------------------------
(* The delayed mover: moveOnce reads the due members, then moves them in   *)
(* one MULTI/EXEC.                                                         *)

\* ZRANGEBYSCORE returns some of the delayed messages as due.
MoverFetch(m) ==
    /\ batch[m] = {}
    /\ \E due \in SUBSET delayed \ {{}} : batch' = [batch EXCEPT ![m] = due]
    /\ UNCHANGED <<stream, cursor, pel, delayed, dlq, cancelled, idemDone>>

\* The sequences that list every element of S once.
Orderings(S) ==
    {s \in [1..Cardinality(S) -> S] :
        /\ \A i, k \in DOMAIN s : s[i] = s[k] => i = k
        /\ \A x \in S : \E i \in DOMAIN s : s[i] = x}

\* Faulty variant: the ZREM is missing.
MoverExecKeeps(m) ==
    /\ batch[m] # {}
    /\ \E s \in Orderings(batch[m]) : stream' = stream \o s
    /\ batch' = [batch EXCEPT ![m] = {}]
    /\ UNCHANGED <<cursor, pel, delayed, dlq, cancelled, idemDone>>

\* XADD and ZREM of every fetched member: XADD adds the entry whether or not
\* the member is still there.
MoverExec(m) ==
    /\ batch[m] # {}
    /\ \E s \in Orderings(batch[m]) : stream' = stream \o s
    /\ delayed' = delayed \ batch[m]
    /\ batch' = [batch EXCEPT ![m] = {}]
    /\ UNCHANGED <<cursor, pel, dlq, cancelled, idemDone>>

\* The transaction fails: moveOnce drops the error and its batch, and the
\* members stay in the ZSET.
MoverExecFails(m) ==
    /\ "Exec" \in Faults
    /\ batch[m] # {}
    /\ batch' = [batch EXCEPT ![m] = {}]
    /\ UNCHANGED <<stream, cursor, pel, delayed, dlq, cancelled, idemDone>>
=============================================================================
