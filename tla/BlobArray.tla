------------------------------- MODULE BlobArray -------------------------------
(***************************************************************************)
(* What the large-blob array promises the users of LargeBlobs              *)
(* (src/fido2/ctap2/blob.py): put_blob and delete_blob change it in one    *)
(* step, replace the entries of one credential and keep all the others.    *)
(***************************************************************************)
EXTENDS Integers, Sequences

CONSTANTS Keys, Values

VARIABLE array

Without(a, k) ==
    LET others[i \in 0..Len(a)] ==
            IF i = 0 THEN <<>>
            ELSE IF a[i].key # k THEN Append(others[i - 1], a[i])
            ELSE others[i - 1]
    IN  others[Len(a)]

Put(k, v) ==
    array' = Append(Without(array, k), [key |-> k, val |-> v, kind |-> "good"])

Delete(k) == array' = Without(array, k)

ArrayNext == \E k \in Keys : Delete(k) \/ \E v \in Values : Put(k, v)

ArraySpec == [][ArrayNext]_array
=============================================================================
