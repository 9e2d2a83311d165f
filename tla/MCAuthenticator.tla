-------------------------- MODULE MCAuthenticator --------------------------
(* Authenticator on a small instance. *)
EXTENDS Authenticator, TLC

CONSTANTS c1, c2, home, away, abroad, a, b, bad, p

MCClient       == {c1, c2}
MCMeta         == {home, away, abroad}
MCName         == {a, b, bad}
MCValidName    == {a, b}
MCOneName      == {a, bad}
MCOneValidName == {a}
MCPassword     == {p}
\* Where a request came from matters only as long as it is served.
MCView == <<users, nextUser, sessions, nextToken, now, pc, actor, cookie, granted, revoked,
            [c \in {d \in Client : pc[d] = "acting"} |-> meta[c]]>>
Symmetry       == Permutations(MCClient) \union Permutations(MCMeta)

=============================================================================
