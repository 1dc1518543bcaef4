----------------------------- MODULE Credentials -----------------------------
(***************************************************************************)
(* How a request is authenticated: the bearer token and Signature V4       *)
(* authenticators, the order of their checks, and the chain that asks them *)
(* in turn.  Parsing is a flag (wellFormed), and so is what the secret     *)
(* hash or the signature proves (genuine).  Times are in units of a clock. *)
(* Dev mode, which replaces the chain by a fixed administrator, is left    *)
(* out.                                                                    *)
(***************************************************************************)
EXTENDS Integers

CONSTANTS
    Users,      \* user UUIDs; an access key identifies its user
    None,       \* absent row or field
    Skew,       \* maxClockSkew, 15 minutes
    MaxAge      \* longest lifetime of a presigned URL, seven days

ASSUME CredentialsAssumption ==
    /\ None \notin Users
    /\ Skew \in Nat
    /\ MaxAge \in Nat

\* What a request carries: no credentials, an Authorization header of one of
\* the two schemes or of another one, or the query of a presigned URL.
Schemes == {"none", "bearer", "sigv4", "presigned", "other"}

Credential ==
    [scheme : Schemes,
     wellFormed : BOOLEAN,      \* every field is there and parses
     user : Users,              \* whom the access key belongs to
     genuine : BOOLEAN,         \* the secret or the signature is that user's
     dated : BOOLEAN,           \* the credential scope has the timestamp's day
     at : Int,                  \* signing time
     expires : Int]             \* X-Amz-Expires

\* The account lookup and the checks of the row, shared by the two schemes
\* up to their order: lookups may fail, accounts may be missing or inactive.
\* The first check that fails is the answer.
CheckSecretFirst(c, row, fails) ==
    IF fails              THEN "Internal"
    ELSE IF row = None    THEN "InvalidCredentials"
    ELSE IF ~c.genuine    THEN "InvalidCredentials"
    ELSE IF ~row.active   THEN "InactiveUser"
    ELSE                       "ok"

CheckActiveFirst(c, row, fails) ==
    IF fails              THEN "Internal"
    ELSE IF row = None    THEN "InvalidCredentials"
    ELSE IF ~row.active   THEN "InactiveUser"
    ELSE IF ~c.genuine    THEN "InvalidCredentials"
    ELSE                       "ok"

\* Mutant: credentials of another scheme are taken for a malformed token.
BearerAuthenticate_ClaimsAll(c, row, fails) ==
    IF c.scheme = "none"                            THEN "NotApplicable"
    ELSE IF c.scheme # "bearer" \/ ~c.wellFormed    THEN "MalformedToken"
    ELSE                                                 CheckSecretFirst(c, row, fails)

BearerAuthenticate(c, row, fails) ==
    IF c.scheme # "bearer"      THEN "NotApplicable"
    ELSE IF ~c.wellFormed       THEN "MalformedToken"
    ELSE                             CheckSecretFirst(c, row, fails)

\* A signed header is good for maxClockSkew around its timestamp.
ValidTimestamp(c, now) ==
    /\ c.dated
    /\ (IF now - c.at < 0 THEN c.at - now ELSE now - c.at) <= Skew

AuthenticateHeader(c, row, now, fails) ==
    IF ~c.wellFormed                THEN "MalformedToken"
    ELSE IF ~ValidTimestamp(c, now) THEN "InvalidCredentials"
    ELSE                                 CheckActiveFirst(c, row, fails)

\* A presigned URL: the cap of seven days and the future bound come before
\* the requested lifetime is looked at.
AuthenticateQuery(c, row, now, fails) ==
    IF ~c.wellFormed                   THEN "MalformedToken"
    ELSE IF ~c.dated                   THEN "InvalidCredentials"
    ELSE IF now > c.at + MaxAge        THEN "InvalidCredentials"
    ELSE IF c.at > now + Skew          THEN "InvalidCredentials"
    ELSE IF c.expires \notin 1..MaxAge THEN "MalformedToken"
    ELSE IF now > c.at + c.expires     THEN "InvalidCredentials"
    ELSE                                    CheckActiveFirst(c, row, fails)

SigV4Authenticate(c, row, now, fails) ==
    CASE c.scheme = "sigv4"     -> AuthenticateHeader(c, row, now, fails)
      [] c.scheme = "presigned" -> AuthenticateQuery(c, row, now, fails)
      [] OTHER                  -> "NotApplicable"

\* The chain answers with the first success, else with the first error of an
\* authenticator that the request was meant for.
ChainAuthenticate(c, row, now, fails) ==
    LET bearer == BearerAuthenticate(c, row, fails)
        sigv4  == SigV4Authenticate(c, row, now, fails)
    IN  IF bearer = "ok" \/ sigv4 = "ok"  THEN "ok"
        ELSE IF bearer # "NotApplicable"  THEN bearer
        ELSE IF sigv4 # "NotApplicable"   THEN sigv4
        ELSE IF c.scheme = "other"        THEN "UnsupportedScheme"
        ELSE                                   "MissingAuth"

\* The status of the response to an authentication error.
AuthStatus(error) ==
    CASE error = "ok"           -> 200
      [] error = "InactiveUser" -> 403
      [] error = "Internal"     -> 500
      [] OTHER                  -> 401

-----------------------------------------------------------------------------
(* Reference: what an observer expects of the chain                        *)

\* The period in which the credentials are good.
Fresh(c, now) ==
    CASE c.scheme = "bearer"    -> TRUE
      [] c.scheme = "sigv4"     -> c.dated /\ now \in (c.at - Skew)..(c.at + Skew)
      [] c.scheme = "presigned" -> /\ c.dated
                                   /\ c.expires \in 1..MaxAge
                                   /\ now \in (c.at - Skew)..(c.at + c.expires)
      [] OTHER                  -> FALSE

\* A request is admitted exactly with current credentials of an active
\* account; the genuine owner of an inactive account is told so (403) by
\* either scheme, and a failing lookup is an internal error (500), never a
\* refusal (docs/management-api.md: "Malformed, invalid, or unsupported
\* credentials return 401. Inactive users [...] return 403").
AuthenticatesExactly(c, row, now, fails) ==
    LET answer == AuthStatus(ChainAuthenticate(c, row, now, fails))
        good   == c.wellFormed /\ Fresh(c, now)
    IN  /\ answer = 500 <=> good /\ fails
        /\ answer = 200 <=> good /\ ~fails /\ row # None /\ c.genuine /\ row.active
        /\ (good /\ ~fails /\ row # None /\ c.genuine /\ ~row.active) => answer = 403
        /\ answer = 403 => row # None /\ ~row.active

=============================================================================
