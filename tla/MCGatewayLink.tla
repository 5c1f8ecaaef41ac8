--------------------------- MODULE MCGatewayLink ---------------------------
(* One connection; each scenario has what one question takes: the limiter,   *)
(* full buffers, one message sent and awaited, a look at the gateway.        *)
EXTENDS GatewayLink, TLC

Scenario(user, versions, chats, news, limit, watched, faults) ==
    [user |-> user, min |-> versions[1], max |-> versions[2], chats |-> chats, news |-> news,
     limit |-> limit, witness |-> watched, faults |-> faults]

MCScenarios ==
    {Scenario("chat", <<2, 2>>, 4, 0, 1, FALSE, FALSE),
     Scenario("chat", <<1, 1>>, 2, 2, 2, FALSE, FALSE),
     Scenario("chat", <<1, 1>>, 2, 1, 2, FALSE, TRUE),
     Scenario("chat", <<1, 1>>, 1, 2, 2, FALSE, TRUE),
     Scenario("send", <<1, 3>>, 1, 1, 1, TRUE, TRUE),
     Scenario("inspect", <<3, 4>>, 0, 0, 1, FALSE, TRUE)}
=============================================================================
