----------------------------- MODULE Retention -----------------------------
(***************************************************************************)
(* Garbage collection: EnsureTTLIndex (queue.go), the index it creates and *)
(* what the server then deletes.  A retention is a duration in             *)
(* nanoseconds, the index holds whole seconds in an int32, and resolved_at *)
(* is compared with the server's clock, which moves by milliseconds.       *)
(* The conversions are the point; the jobs are JobStore's.                 *)
(***************************************************************************)
EXTENDS QueueStore

CONSTANTS
    Asked,          \* the retentions callers pass, in nanoseconds, any sign
    NsPerSecond,    \* time.Second
    MaxInt32,       \* math.MaxInt32
    MaxAge,         \* bound: ages are counted up to here
    NoIndex         \* EnsureTTLIndex has not created the index

ASSUME RetentionAssumption ==
    /\ Asked \subseteq Int
    /\ NsPerSecond \in Nat \ {0} /\ NsPerSecond % NsPerMs = 0
    /\ MaxInt32 \in Nat
    /\ MaxAge \in Nat
    /\ NoIndex \notin Int

VARIABLES
    age,            \* id -> nanoseconds since resolved_at, 0 when pending
    ttl,            \* the index: its expireAfterSeconds, or NoIndex
    granted         \* history: the retentions EnsureTTLIndex answered nil for

retentionVars == << jobs, age, ttl, granted >>

RetentionInit ==
    /\ StoreInit
    /\ age = [j \in JobId |-> 0]
    /\ ttl = NoIndex
    /\ granted = {}

(* int64(retention / time.Second), truncated toward zero.                  *)
WholeSeconds(r) ==
    IF r >= 0 THEN r \div NsPerSecond ELSE -((-r) \div NsPerSecond)

(* int32(seconds)                                                          *)
AsInt32(s) == ((s + MaxInt32 + 1) % (2 * (MaxInt32 + 1))) - (MaxInt32 + 1)

(* Mutations: only negative ones are refused; only what is over an int32.  *)
InRangeFromZero(r) == WholeSeconds(r) \in 0 .. MaxInt32
InRangeUnbounded(r) == WholeSeconds(r) >= 1

(* Anything else is refused before a server round trip.                    *)
InRange(r) == WholeSeconds(r) \in 1 .. MaxInt32

(* The server creates the index, or already has it with this very value;   *)
(* with another it answers a conflict and changes nothing.                 *)
IndexAfter(r) ==
    /\ InRange(r)
    /\ ttl \in {NoIndex, AsInt32(WholeSeconds(r))}
    /\ ttl' = AsInt32(WholeSeconds(r))
    /\ UNCHANGED << jobs, age >>

EnsureTTLIndex(r) == IndexAfter(r) /\ granted' = granted \cup {r}

(* The index was created and the answer was lost.                          *)
EnsureTTLIndexUnknown(r) == IndexAfter(r) /\ UNCHANGED granted

(* A job that is not resolved, or no longer there, has no resolved_at.     *)
AgesKept == age' = [j \in JobId |-> IF Resolved(j)' THEN age[j] ELSE 0]

(* The TTL monitor runs at any time; it deletes what is old enough.        *)
Collect(j) ==
    /\ ttl # NoIndex
    /\ Expire(j)
    /\ age[j] >= ttl * NsPerSecond
    /\ AgesKept
    /\ UNCHANGED << ttl, granted >>

(* Enqueue, the workers and the cancelers.                                 *)
Use ==
    /\ \E j \in JobId :
        \/ \E t \in Tenant, p \in Partition, v \in VStamp, d \in Duration :
            InsertOne(j, t, p, v, d)
        \/ \E d \in Duration : \/ Heartbeat(j, d) \/ Release(j, d)
                               \/ \E p \in Partition, c \in ClaimId : Claim(j, p, c, d)
        \/ \E r \in Resolution : Complete(j, r)
        \/ Cancel(j)
    /\ AgesKept
    /\ UNCHANGED << ttl, granted >>

(* One millisecond of server time.                                         *)
Elapse ==
    /\ TickJobs
    /\ age' = [j \in JobId |-> IF Resolved(j) /\ age[j] < MaxAge
                               THEN age[j] + NsPerMs ELSE age[j]]
    /\ UNCHANGED << ttl, granted >>

RetentionNext ==
    \/ \E r \in Asked : EnsureTTLIndex(r) \/ EnsureTTLIndexUnknown(r)
    \/ \E j \in JobId : Collect(j)
    \/ Use
    \/ Elapse

RetentionSpec == RetentionInit /\ [][RetentionNext]_retentionVars

-----------------------------------------------------------------------------

(* A job leaves the collection only resolved, at least a second after it   *)
(* was, and no sooner than any retention EnsureTTLIndex accepted, but for  *)
(* the fraction of a second an index cannot hold: never "the instant it    *)
(* resolves" (queue.go:317-322), whatever is asked, by several callers,    *)
(* with answers lost and the index created over jobs already resolved.     *)
KeptAsAsked ==
    [][\A j \in JobId : jobs[j] # Absent /\ jobs'[j] = Absent =>
        /\ Resolved(j)
        /\ age[j] >= NsPerSecond
        /\ \A r \in granted : age[j] > r - NsPerSecond]_retentionVars
=============================================================================
