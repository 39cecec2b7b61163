------------------------------ MODULE MCEditors ------------------------------
EXTENDS Editors, TLC
Symmetry == Permutations(Tabs) \cup Permutations(Passwords)

CONSTANTS g1, g2
FirstToken == <<1, 2, 2>>
NextToken  == <<2, 0, 0>>
TwoTokens  == g1 :> FirstToken @@ g2 :> NextToken

TwoClassesAndDigits == << <<"a", "b">>, <<"A">>, <<"0", "1">> >>
ThreeWords == <<"able", "acid", "zoom">>
=============================================================================
