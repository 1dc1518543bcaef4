------------------------------- MODULE MCAccess -------------------------------
EXTENDS Access, TLC

CONSTANTS u0, u1, u2, b1, b2, g1, g2, r1, r2

UserRow(role) == [role |-> role, active |-> TRUE]

NewInstallation ==
    [users |-> [u \in Users |-> None], owner |-> [b \in Buckets |-> None],
     grants |-> [g \in GrantIds |-> None], links |-> [c \in Codes |-> None]]

\* An administrator u0 with a share link to a key of b1, and two members: u1
\* owns b1, u2 owns b2 and may delete in b1 under the prefix "a".
RunningInstallation ==
    [users  |-> [u \in Users |-> UserRow(IF u = u0 THEN "admin" ELSE "member")],
     owner  |-> [b \in Buckets |-> IF b = b1 THEN u1 ELSE u2],
     grants |-> [g \in GrantIds |->
                    IF g = g1 THEN [bucket |-> b1, grantee |-> u2, action |-> "DeleteObject",
                                    prefix |-> <<"a">>, active |-> TRUE]
                    ELSE None],
     links  |-> [c \in Codes |-> [bucket |-> b1, key |-> <<"a">>, creator |-> u0,
                                  expires |-> 1]]]

Installations == {NewInstallation, RunningInstallation}

\* A token per user, and a presigned URL of u0 that is good until time 1.
Token(u) == [scheme |-> "bearer", wellFormed |-> TRUE, user |-> u, genuine |-> TRUE,
             dated |-> TRUE, at |-> 0, expires |-> 1]
SentCredentials == {Token(u) : u \in Users} \cup {[Token(u0) EXCEPT !.scheme = "presigned"]}

\* Two keys, one of them under the prefix "a".
MCKeys == {<<"a">>, <<"b">>}
MCPrefixes == {<<>>, <<"a">>}

Symm == Permutations({r1, r2})
=============================================================================
