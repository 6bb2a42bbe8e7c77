---------------------------- MODULE MCAlertRouter ----------------------------
(* Model checking of AlertRouter: two rules of different windows share a     *)
(* channel, a third fires another one.                                       *)
EXTENDS AlertRouter, TLC

CONSTANTS d1, d2, slackAny, slackLoop, mailLoop, slack, mail, loop, timeout

MCChannelOf == (slackAny :> slack @@ slackLoop :> slack @@ mailLoop :> mail)
MCMatches == (slackAny :> {loop, timeout} @@ slackLoop :> {loop} @@ mailLoop :> {loop})
MCWindow == (slackAny :> 1 @@ slackLoop :> 2 @@ mailLoop :> 2)
MCSymmetry == Permutations({d1, d2})

=============================================================================
