----------------------------- MODULE MCPlaySessions -----------------------------
(* Small instances of PlaySessions: the Switch and the emulator of one home, *)
(* behind one address, as is the browser.                                    *)
EXTENDS PlaySessions, TLC

Home(kind) == [kind |-> kind, ip |-> "home"]

MCBrowser == Home("browser")
Both == {Home("ryujinx"), Home("switch")}

Symmetry == Permutations(Ids) \cup Permutations(Workers)
=============================================================================
