------------------------------ MODULE MCParts -------------------------------
(* The small parts, one at a time: while one of them moves the others are   *)
(* where they began, so the states add up and are not multiplied.           *)
EXTENDS SpeakText, ConfigTest

MCContents ==
  {<<"a">>, <<Stop>>, <<Space>>, <<Backslash>>, <<"a", Stop>>, <<"a", Space>>, <<Space, "a">>,
   <<Space, Stop>>, <<"a", Backslash>>, <<Backslash, "a">>, <<Backslash, "m", Backslash>>,
   <<"a", "a", "a", "a", "a", "a">>}

PartsInit == Init /\ SpeakTextInit /\ TestInit

TextFixMoves   == SpeakTextInit /\ TestInit /\ Next          /\ UNCHANGED <<speakTextVars, testVars>>
SpeakTextMoves == Init /\ TestInit          /\ SpeakTextNext /\ UNCHANGED <<vars, testVars>>
TestMoves      == Init /\ SpeakTextInit     /\ TestNext      /\ UNCHANGED <<vars, speakTextVars>>

PartsSpec ==
  /\ PartsInit
  /\ [][TextFixMoves \/ SpeakTextMoves \/ TestMoves]_<<vars, speakTextVars, testVars>>
  /\ TestFairness
=============================================================================
