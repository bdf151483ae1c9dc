--------------------------- MODULE MC_FlashCommand ---------------------------
EXTENDS FlashCommand

V(num, text) == [num |-> num, text |-> text]

MCBootloader == [version |-> V(<<2, 4>>, ""), baud |-> 1]

MCProbeMethods == {"GECKO", "EZSP", "SPINEL"}
MCBaudrates == [t \in {"GECKO", "EZSP", "SPINEL", "CPC", "ROUTER"} |->
                  IF t = "EZSP" THEN {1, 2} ELSE {1}]

Image(type, versions, baud, app) ==
  [readable |-> TRUE, fwType |-> type, versions |-> versions, baud |-> baud,
   app |-> app, boots |-> TRUE]

App(type, num, text, baud) == [type |-> type, version |-> V(num, text), baud |-> baud]

Old    == App("EZSP", <<7, 3, 0>>, "build", 1)
New    == App("EZSP", <<7, 4>>, "", 1)
Thread == App("SPINEL", <<2, 2>>, "", 3)
Multi  == App("CPC", <<4>>, "", 1)

\* EmberZNet in two versions, and the older one at another rate; OpenThread in
\* a version below the bootloader's, at a rate that is not probed by default,
\* and without a rate in the metadata; multiprotocol, which is not probed by
\* default and has two versions in its metadata; images whose metadata lack
\* something, or all; and one that does not boot.
MCImages ==
  {Image("zigbee_ncp", [ezsp |-> V(<<7, 3>>, "")], 1, Old),
   Image("zigbee_ncp", [ezsp |-> V(<<7, 4>>, ""), sdk |-> V(<<4>>, "")], 1, New),
   Image("zigbee_ncp", [ezsp |-> V(<<7, 3>>, "")], 2, [Old EXCEPT !.baud = 2]),
   Image("openthread_rcp", [ot_rcp |-> V(<<2, 2>>, "")], 3, Thread),
   Image("openthread_rcp", [ot_rcp |-> V(<<2, 2>>, "")], 0, [Thread EXCEPT !.baud = 1]),
   Image("multipan", [cpc |-> V(<<4>>, ""), ezsp |-> V(<<7, 3>>, "")], 0, Multi),
   Image("zwave_ncp", [sdk |-> V(<<4>>, "")], 0, App("other", << >>, "zwave", 1)),
   Image("none", [sdk |-> V(<<7, 3>>, "")], 0, Old),
   Image("zigbee_ncp", << >>, 0, New),
   [readable |-> FALSE, fwType |-> "none", versions |-> << >>, baud |-> 0, app |-> New,
    boots |-> TRUE],
   [Image("zigbee_ncp", [ezsp |-> V(<<7, 5>>, "")], 1, App("EZSP", <<7, 5>>, "", 1))
      EXCEPT !.boots = FALSE]}

MCOptions ==
  [force : BOOLEAN, exact : BOOLEAN, downgrades : BOOLEAN, cross : BOOLEAN,
   resets : BOOLEAN, methods : {{}}, rates : {{}}]
  \cup [force : {FALSE}, exact : {FALSE}, downgrades : BOOLEAN, cross : {FALSE},
        resets : BOOLEAN, methods : {{"EZSP"}, {}}, rates : {{1}, {2}, {}}]
=============================================================================
