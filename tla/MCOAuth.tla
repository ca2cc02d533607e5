-------------------------------- MODULE MCOAuth --------------------------------
(* Small instances of OAuth: an application and the emulator are asked for,  *)
(* with and without a challenge, and codes are presented by the right and by *)
(* another client, at the right and at another redirect.                     *)
EXTENDS OAuth, TLC

CONSTANTS kart, other, p1, site, loop, v1, name, friends

MCOffers == {[redirects |-> {site}, scopes |-> {name, friends}], [redirects |-> {site}, scopes |-> {}]}

MCAsked ==
  { [client |-> kart, pid |-> p1, scopes |-> {}, redirect |-> site, challenge |-> NoPkce],
    [client |-> kart, pid |-> p1, scopes |-> {name, friends}, redirect |-> site, challenge |-> v1],
    [client |-> Emulator, pid |-> p1, scopes |-> {friends}, redirect |-> loop, challenge |-> v1],
    [client |-> Emulator, pid |-> p1, scopes |-> {name}, redirect |-> loop, challenge |-> NoPkce] }

MCPresented ==
  { [client |-> kart, redirect |-> site, verifier |-> v1],
    [client |-> kart, redirect |-> loop, verifier |-> NoPkce],
    [client |-> other, redirect |-> site, verifier |-> v1],
    [client |-> Emulator, redirect |-> loop, verifier |-> v1],
    [client |-> Emulator, redirect |-> loop, verifier |-> NoPkce] }

MCSymmetry == Permutations(Codes) \cup Permutations(Workers)
=============================================================================
