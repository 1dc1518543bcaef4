---------------------------- MODULE MCObjectStore ----------------------------
(* Small instances of ObjectStore for TLC.                                 *)
EXTENDS ObjectStore, TLC

CONSTANTS b1, b2, k1, k2, p1, p2, p3, p4, c1, c2, r1, r2, r3

\* Requests without conditions, and conditional creation.
PlainOrCreate == {<<NoHeader, NoHeader>>, <<NoHeader, AnyTag>>}
Unconditional == {<<NoHeader, NoHeader>>}

\* Every header the precondition check tells apart.
AllConditions == {NoHeader, AnyTag, c1} \X {NoHeader, AnyTag, c1}

Symm == Permutations(Paths) \cup Permutations(Requests)
        \cup Permutations(Keys) \cup Permutations(Buckets)
=============================================================================
