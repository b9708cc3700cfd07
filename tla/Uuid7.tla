-------------------------------- MODULE Uuid7 --------------------------------
(***************************************************************************)
(* uuid7() of common/db/models.py: the keys the threads of one process     *)
(* make, while the clock may stand still or step back.  The fields keep    *)
(* their order in a key and have widths of their own, which are small      *)
(* here: a millisecond of COUNTER_BITS 42 never runs out in a test.        *)
(***************************************************************************)
EXTENDS Naturals, Sequences

CONSTANTS Threads,
          TIME_BITS, COUNTER_BITS, RAND_A_BITS, RANDOM_BITS,   \* 48, 42, 12 and 32
          MaxKeys                                              \* bound on the keys made

VARIABLES _last_milliseconds, _last_counter, _uuid7_lock,
          thread,    \* each thread's call: where it is, and the time and count it has
          keys       \* the keys made, in the order the calls counted
uuidVars == <<_last_milliseconds, _last_counter, _uuid7_lock, thread, keys>>

ASSUME Uuid7Assumption ==
    /\ {TIME_BITS, RAND_A_BITS, RANDOM_BITS, MaxKeys} \subseteq Nat \ {0}
    /\ COUNTER_BITS \in Nat /\ COUNTER_BITS > RAND_A_BITS

Milliseconds == 0..(2^TIME_BITS - 2)    \* the clock's; the last is left for one that counts out
RAND_B_BITS == COUNTER_BITS - RAND_A_BITS

\* Arithmetic that proofs use, of powers of two.
ASSUME PowersAssumption ==
    /\ \A bits \in {2, 4, TIME_BITS, COUNTER_BITS - 1, RAND_A_BITS, RAND_B_BITS, RANDOM_BITS} :
            2^bits \in Nat \ {0, 1}
    /\ 2^2 = 4 /\ 2^4 = 16
    /\ 2^COUNTER_BITS = 2 * 2^(COUNTER_BITS - 1)
    /\ 2^COUNTER_BITS = 2^RAND_A_BITS * 2^RAND_B_BITS

Waiting == [at |-> "idle", milliseconds |-> 0, counter |-> 0]

\* _counter_seed(): in the lower half, so there is room to count up.
_counter_seed == 0..(2^(COUNTER_BITS - 1) - 1)

\* The key: the time, the version 7, the counter's first bits, the variant 2, its other
\* bits, then random ones.
Packed(high, bits, low) == high * 2^bits + low
Value(milliseconds, counter, random) ==
    LET versioned == Packed(milliseconds % 2^TIME_BITS, 4, 7)
        rand_a == Packed(versioned, RAND_A_BITS, counter \div 2^RAND_B_BITS)
        rand_b == Packed(Packed(rand_a, 2, 2), RAND_B_BITS, counter % 2^RAND_B_BITS)
    IN Packed(rand_b, RANDOM_BITS, random)

-----------------------------------------------------------------------------
UuidInit ==
    /\ _last_milliseconds = 0 /\ _last_counter = 0 /\ _uuid7_lock = {}
    /\ thread = [t \in Threads |-> Waiting] /\ keys = <<>>

\* The lock is taken, and the clock read under it.
ReadsClock(t) ==
    /\ thread[t].at = "idle" /\ _uuid7_lock = {} /\ Len(keys) < MaxKeys
    /\ _uuid7_lock' = {t}
    /\ \E now \in Milliseconds :
            thread' = [thread EXCEPT ![t] = [at |-> "read", milliseconds |-> now, counter |-> 0]]
    /\ UNCHANGED <<_last_milliseconds, _last_counter, keys>>

\* A later millisecond starts its counter anew; else it counts on, into the next
\* millisecond when it has counted out.
Later_OrSame(milliseconds) == milliseconds >= _last_milliseconds
Later(milliseconds) == milliseconds > _last_milliseconds
Counts(t) ==
    /\ thread[t].at = "read"
    /\ \E seed \in _counter_seed :
        LET now == thread[t].milliseconds
            counted == _last_counter + 1
        IN thread' = [thread EXCEPT ![t] =
             IF Later(now) THEN [at |-> "counted", milliseconds |-> now, counter |-> seed]
             ELSE IF counted \div 2^COUNTER_BITS # 0
             THEN [at |-> "counted", milliseconds |-> _last_milliseconds + 1, counter |-> seed]
             ELSE [at |-> "counted", milliseconds |-> _last_milliseconds, counter |-> counted]]
    /\ UNCHANGED <<_last_milliseconds, _last_counter, _uuid7_lock, keys>>

\* The lock is given back; the key's random bits are drawn after it.
Keeps(t) ==
    /\ thread[t].at = "counted"
    /\ _last_milliseconds' = thread[t].milliseconds /\ _last_counter' = thread[t].counter
    /\ _uuid7_lock' = _uuid7_lock \ {t}
    /\ \E random \in 0..(2^RANDOM_BITS - 1) :
            keys' = Append(keys, Value(thread[t].milliseconds, thread[t].counter, random))
    /\ thread' = [thread EXCEPT ![t] = Waiting]

UuidNext == \E t \in Threads : ReadsClock(t) \/ Counts(t) \/ Keeps(t)
UuidSpec == UuidInit /\ [][UuidNext]_uuidVars

-----------------------------------------------------------------------------
\* Every key sorts after those made before it, whatever the clock did and however many
\* were made of one millisecond: what an index's pages and a cursor over them rely on.
KeysSortAsMade == \A i, j \in DOMAIN keys : i < j => keys[i] < keys[j]
=============================================================================
