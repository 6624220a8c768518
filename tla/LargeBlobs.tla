------------------------------ MODULE LargeBlobs ------------------------------
(***************************************************************************)
(* LargeBlobs (src/fido2/ctap2/blob.py): the large-blob array of an        *)
(* authenticator, read and written in fragments by platforms that do not   *)
(* know of each other: programs with a channel of their own each.          *)
(*                                                                         *)
(* Every change is a read of the whole array, a change in memory and a     *)
(* write of the whole array; each fragment is an exchange of its own. Only *)
(* the hash at the end of the array tells whether the fragments belong     *)
(* together, and nothing tells that the array changed since it was read.   *)
(*                                                                         *)
(* The serialized array is a sequence of units: one for each entry, then   *)
(* one for the hash. What an entry holds is abstracted to whose key opens  *)
(* it and to what comes of opening it.                                     *)
(***************************************************************************)
EXTENDS Integers, Sequences, SequencesExt

CONSTANTS
    Platforms,
    Keys,         \* large-blob keys that the platforms use
    Values,       \* blobs
    NoValue,      \* data is None
    FragmentLen,  \* max_fragment_length, in units
    MaxUnits,     \* capacity of the authenticator, in units
    FirstArrays,  \* what the array may be at first
    MaxOps,       \* bound: operations started
    MaxFaults     \* bound: errors, lost answers, power losses

(* An entry is "good", "damaged" (it opens, but the blob does not inflate  *)
(* to its size) or "odd" (its fields make _lb_unpack raise something else  *)
(* than ValueError, a size that does not fit in 64 bits for one). Entries  *)
(* with other keys, or of another form, are those no key in Keys opens.    *)
Entry == [key : Keys \cup {"other"}, val : Values,
          kind : {"good", "damaged", "odd"}]

BlobAssumption ==
    /\ Keys # {} /\ "other" \notin Keys
    /\ Values \cap {NoValue, "none", "done", "raised"} = {}
    /\ NoValue \notin {"none", "done", "raised"}
    /\ FragmentLen \in Nat \ {0} /\ MaxUnits \in Nat \ {0}
    /\ \A a \in FirstArrays : a \in Seq(Entry) /\ Len(a) < MaxUnits
    /\ FirstArrays # {}
    /\ MaxOps \in Nat /\ MaxFaults \in Nat

VARIABLES
    pc,      \* per platform: idle, read, write
    op,      \* the operation: get, put (delete: a put of NoValue) and its key
    offset,  \* offset, in units
    buf,     \* buf
    data,    \* the array that is being written, serialized
    result   \* what the last operation returned or raised

VARIABLES
    stored,  \* authenticator: the serialized array
    pending, \* the fragments of a write that is not complete
    size     \* the announced length of it, 0 if there is none

VARIABLES
    seen,    \* history: the arrays stored since a platform began to read
    ops, faults

platformVars == <<pc, op, offset, buf, data, result>>
deviceVars == <<stored, pending, size>>
vars == <<platformVars, deviceVars, seen, ops, faults>>

Operations == [kind : {"get"}, key : Keys, val : {NoValue}]
              \cup [kind : {"put"}, key : Keys, val : Values \cup {NoValue}]

\* cbor.encode, and the hash that follows.
Hash(a) == [hash |-> a]
Encode(a) == Append(a, Hash(a))

\* cbor.decode, or [] if the hash is not that of the data.
Decode(units) ==
    IF units # <<>> /\ Last(units) = Hash(Front(units)) THEN Front(units) ELSE <<>>

Init ==
    /\ pc = [p \in Platforms |-> "idle"]
    /\ op \in [Platforms -> {CHOOSE o \in Operations : TRUE}]
    /\ offset = [p \in Platforms |-> 0]
    /\ buf = [p \in Platforms |-> <<>>]
    /\ data = [p \in Platforms |-> <<>>]
    /\ result = [p \in Platforms |-> "none"]
    /\ stored \in {Encode(a) : a \in FirstArrays}
    /\ pending = <<>> /\ size = 0
    /\ seen = [p \in Platforms |-> {}]
    /\ ops = 0 /\ faults = 0

-----------------------------------------------------------------------------
Set(f, p, x) == [f EXCEPT ![p] = x]

\* The operation returns or raises r; its variables are gone.
Finish(p, r) ==
    /\ pc' = Set(pc, p, "idle") /\ result' = Set(result, p, r)
    /\ offset' = Set(offset, p, 0)
    /\ buf' = Set(buf, p, <<>>) /\ data' = Set(data, p, <<>>)

\* get_blob, put_blob or delete_blob is called.
Start(p, o) ==
    /\ pc[p] = "idle" /\ ops < MaxOps
    /\ ops' = ops + 1
    /\ pc' = Set(pc, p, "read") /\ op' = Set(op, p, o)
    /\ offset' = Set(offset, p, 0) /\ buf' = Set(buf, p, <<>>)
    /\ result' = Set(result, p, "none")
    /\ seen' = Set(seen, p, {Decode(stored)})
    /\ UNCHANGED <<data, deviceVars, faults>>

\* Mutant: an entry that does not inflate counts as another's.
OpensInflated(k, e) == e.key = k /\ e.kind = "good"

\* _lb_unpack succeeds.
Opens(k, e) == e.key = k /\ e.kind # "odd"

\* Mutant: the size of the blob is not compared.
GetAnySize(p, array) ==
    LET hit(e) == e.kind = "odd" \/ e.key = op[p].key
        i == SelectInSeq(array, hit)
    IN  Finish(p, IF i = 0 THEN NoValue
                  ELSE IF array[i].kind = "odd" THEN "raised" ELSE array[i].val)

\* get_blob: the first entry that opens and inflates to its size.
Get(p, array) ==
    LET hit(e) == e.kind = "odd" \/ (e.key = op[p].key /\ e.kind = "good")
        i == SelectInSeq(array, hit)
    IN  Finish(p, IF i = 0 THEN NoValue
                  ELSE IF array[i].kind = "odd" THEN "raised" ELSE array[i].val)

\* Mutant: the entries of the credential are not left out.
ReplacedOnTop(array, o) ==
    array \o IF o.val = NoValue THEN <<>>
             ELSE <<[key |-> o.key, val |-> o.val, kind |-> "good"]>>

\* The entries that put_blob writes back: its loop appends all that do not open.
Kept(array, k) ==
    LET entries[i \in 0..Len(array)] ==
            IF i = 0 THEN <<>>
            ELSE IF Opens(k, array[i]) THEN entries[i - 1]
            ELSE Append(entries[i - 1], array[i])
    IN  entries[Len(array)]

\* What put_blob writes: the new entry follows those.
Replaced(array, o) ==
    Kept(array, o.key)
    \o IF o.val = NoValue THEN <<>>
       ELSE <<[key |-> o.key, val |-> o.val, kind |-> "good"]>>

\* put_blob once the array was read; nothing is written if there is nothing to
\* store and nothing was left out.
Modify(p, array) ==
    LET new == Replaced(array, op[p])
        odd == \E e \in ToSet(array) : e.kind = "odd"
    IN  IF odd THEN Finish(p, "raised")
        ELSE IF op[p].val = NoValue /\ new = array
        THEN Finish(p, "done")
        ELSE /\ pc' = Set(pc, p, "write")
             /\ data' = Set(data, p, Encode(new))
             /\ offset' = Set(offset, p, 0) /\ buf' = Set(buf, p, <<>>)
             /\ UNCHANGED result

\* Mutant: the hash is not compared.
ArrayOfAny(units) ==
    SelectSeq(units, LAMBDA u : "hash" \notin DOMAIN u)

\* What read_blob_array returns.
ArrayOf(units) == Decode(units)

\* The fragment that the authenticator returns for get at an offset.
FragmentAt(o) ==
    SubSeq(stored, o + 1, Min({o + FragmentLen, Len(stored)}))

\* read_blob_array: one turn of its loop, and what follows the last one.
ReadFragment(p) ==
    LET fragment == FragmentAt(offset[p])
        got == buf[p] \o fragment
    IN  /\ pc[p] = "read" /\ offset[p] <= Len(stored)
        /\ IF Len(fragment) = FragmentLen
           THEN /\ offset' = Set(offset, p, offset[p] + FragmentLen)
                /\ buf' = Set(buf, p, got)
                /\ UNCHANGED <<pc, data, result>>
           ELSE IF op[p].kind = "get"
           THEN Get(p, ArrayOf(got))
           ELSE Modify(p, ArrayOf(got))
        /\ UNCHANGED <<op, deviceVars, seen, ops, faults>>

\* Nothing is at this offset any more, the array became shorter: an error.
ReadPastEnd(p) ==
    /\ pc[p] = "read" /\ offset[p] > Len(stored)
    /\ Finish(p, "raised")
    /\ UNCHANGED <<op, deviceVars, seen, ops, faults>>

-----------------------------------------------------------------------------
(* The authenticator's end of a write: a fragment at offset 0 begins one,  *)
(* any other has to follow the fragments received so far.                  *)

\* The fragment that is sent next, and the fragments with it.
NextFragment(p) ==
    SubSeq(data[p], offset[p] + 1, Min({offset[p] + FragmentLen, Len(data[p])}))

Sent(p) == offset[p] + Len(NextFragment(p))

Received(p) == (IF offset[p] = 0 THEN <<>> ELSE pending) \o NextFragment(p)

Announced(p) == IF offset[p] = 0 THEN Len(data[p]) ELSE size

InSequence(p) ==
    IF offset[p] = 0 THEN Len(data[p]) <= MaxUnits
    ELSE size # 0 /\ offset[p] = Len(pending) /\ Len(Received(p)) <= size

\* The answer to the fragment p sends, and what became of the array. The
\* reading platforms may see the new array from now on.
Perform(p, ok) ==
    IF ~InSequence(p)
    THEN ~ok /\ UNCHANGED <<deviceVars, seen>>
    ELSE IF Len(Received(p)) < Announced(p)
    THEN /\ ok
         /\ pending' = Received(p) /\ size' = Announced(p)
         /\ UNCHANGED <<stored, seen>>
    ELSE /\ pending' = <<>> /\ size' = 0
         /\ ok <=> Last(Received(p)) = Hash(Front(Received(p)))
         /\ stored' = IF ok THEN Received(p) ELSE stored
         /\ seen' = [q \in Platforms |->
                        IF pc[q] = "read" THEN seen[q] \cup {Decode(stored')}
                        ELSE seen[q]]

\* write_blob_array: one turn of its loop; an error ends it.
WriteFragment(p) ==
    /\ pc[p] = "write"
    /\ \E ok \in BOOLEAN :
        /\ Perform(p, ok)
        /\ IF ~ok THEN Finish(p, "raised")
           ELSE IF Sent(p) >= Len(data[p]) THEN Finish(p, "done")
           ELSE /\ offset' = Set(offset, p, Sent(p))
                /\ UNCHANGED <<pc, result, buf, data>>
    /\ UNCHANGED <<op, ops, faults>>

\* An exchange fails. What was sent may have been carried out all the same.
Fail(p) ==
    /\ pc[p] # "idle" /\ faults < MaxFaults
    /\ faults' = faults + 1
    /\ Finish(p, "raised")
    /\ \/ UNCHANGED <<deviceVars, seen>>
       \/ pc[p] = "write" /\ \E ok \in BOOLEAN : Perform(p, ok)
    /\ UNCHANGED <<op, ops>>

\* The authenticator forgets a write that is not complete: another command
\* came between, or the power was lost.
Forget ==
    /\ size # 0 /\ faults < MaxFaults
    /\ faults' = faults + 1
    /\ pending' = <<>> /\ size' = 0
    /\ UNCHANGED <<platformVars, stored, seen, ops>>

Next ==
    \/ \E p \in Platforms :
        \/ \E o \in Operations : Start(p, o)
        \/ ReadFragment(p) \/ ReadPastEnd(p) \/ WriteFragment(p) \/ Fail(p)
    \/ Forget

Spec == Init /\ [][Next]_vars

-----------------------------------------------------------------------------
(* Properties *)

\* Type invariant: the offset of a platform never passes what it reads or
\* writes, and the authenticator holds less than it was announced.
TypeOK ==
    /\ pc \in [Platforms -> {"idle", "read", "write"}]
    /\ op \in [Platforms -> Operations]
    /\ result \in [Platforms -> {"none", "done", "raised", NoValue} \cup Values]
    /\ \A p \in Platforms :
        /\ pc[p] = "read" => Len(buf[p]) = offset[p]
        /\ pc[p] = "write" => offset[p] < Len(data[p])
        /\ Len(data[p]) <= MaxUnits + 2
    /\ Last(stored) = Hash(Front(stored)) /\ Len(stored) <= MaxUnits
    /\ IF size = 0 THEN pending = <<>> ELSE Len(pending) \in 1..(size - 1)
    /\ ops \in 0..MaxOps /\ faults \in 0..MaxFaults

\* The first blob of k in an array that get_blob accepts.
BlobOf(array, k) ==
    LET i == SelectInSeq(array, LAMBDA e : e.key = k /\ e.kind = "good")
    IN  IF i = 0 THEN NoValue ELSE array[i].val

\* A get that returns v found v as the blob of its key in one whole array that
\* was stored while it was reading: fragments of two arrays are not combined
\* (read_blob_array compares the hash).
GetIsHonest ==
    \A p \in Platforms :
        pc[p] = "idle" /\ op[p].kind = "get" /\ result[p] \in Values
            => \E a \in seen[p] : BlobOf(a, op[p].key) = result[p]

\* A write replaces the array by one whole array that was stored while the
\* platform was reading, or by the empty array (the hash did not match), with
\* the entries of its key replaced. Nothing is ever stored that mixes
\* fragments of two reads or of two writes.
CommitFromOneArray ==
    [][stored' # stored =>
        \E p \in Platforms : pc[p] = "write" /\
            \E a \in seen[p] \cup {<<>>} :
                Decode(stored') = Replaced(a, op[p])]_vars

\* Once a write has changed the array, reported or not, get_blob of its key
\* returns what was put, or nothing if it was a delete: damaged and duplicate
\* entries are not in the way. (A write that is reported may not have changed
\* it: the other platform's may have taken its last fragment.)
EffectIsRead ==
    [][\A p \in Platforms :
        pc[p] = "write" /\ pc'[p] = "idle" /\ stored' # stored
            => BlobOf(Decode(stored'), op[p].key) = op[p].val]_vars

Array == INSTANCE BlobArray WITH array <- Decode(stored)

\* A write ends as BlobArray says if the array is the one its platform read,
\* and if no other was stored while it read: then the entries of other
\* credentials are kept, whatever errors and lost answers there were.
UndisturbedContract ==
    [][\A p \in Platforms :
        pc[p] = "write" /\ pc'[p] = "idle" /\ seen[p] = {Decode(stored)}
            => [Array!ArrayNext]_(Decode(stored))]_vars

=============================================================================
