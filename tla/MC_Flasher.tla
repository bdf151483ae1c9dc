----------------------------- MODULE MC_Flasher -----------------------------
EXTENDS Flasher

\* The order and the shape of the defaults, with small numbers for baudrates;
\* an application may use a rate that is not probed for its type.
MCBaudrates ==
  [t \in Types |-> CASE t = "GECKO"  -> <<1, 2>>
                     [] t = "CPC"    -> <<1, 3>>
                     [] t = "EZSP"   -> <<1, 2>>
                     [] t = "SPINEL" -> <<2>>
                     [] t = "ROUTER" -> <<1>>]

MCProbeMethods == <<"GECKO", "EZSP", "SPINEL", "CPC", "ROUTER">>

MCTargetChoices == {<< >>, <<"yellow", "rts_dtr">>} \cup {<<t>> : t \in ResetTargets}
=============================================================================
