--------------------------- MODULE MCConsoleBindings ---------------------------
(* Two players, each with the pair of ids minted for them; consoles may     *)
(* present any pair of those, a profile of one player on the other's        *)
(* console included.                                                        *)
EXTENDS ConsoleBindings, TLC

CONSTANTS p1, p2, b1, b2, d1, d2

MCPids == {p1, p2}
MCBaas == {b1, b2}
MCDids == {d1, d2}
MCMinted == (p1 :> [baas |-> b1, did |-> d1]) @@ (p2 :> [baas |-> b2, did |-> d2])

Token(b, d) == [baas |-> b, did |-> d]

(* p2's console presenting p2's profile, then p1's, and a caller that knows *)
(* only p1's BAAS id.                                                       *)
MixedConsoles == {Token(b2, d2), Token(b1, d2), Token(b1, NoId)}

Symmetry == Permutations(Workers)
=============================================================================
