------------------------------- MODULE MCChat -------------------------------
(***************************************************************************)
(* Instance of Chat for TLC: a registered member and provider who know     *)
(* each other, a newcomer, and the service chat.                           *)
(***************************************************************************)
EXTENDS Chat

CONSTANTS member, provider, newcomer, service

Order(k, f, t, p) == [kind |-> k, from |-> f, to |-> t, provider |-> p]

MCTraffic == {Order("send", member, provider, FALSE),
              Order("send", provider, member, TRUE),
              Order("send", member, service, FALSE),
              Order("send", member, newcomer, FALSE),
              Order("send", provider, newcomer, TRUE),
              Order("send", provider, service, TRUE),
              Order("self", member, service, FALSE),
              Order("register", newcomer, service, FALSE),
              Order("welcome", newcomer, service, FALSE),
              Order("cms", service, member, FALSE),
              Order("cms", service, newcomer, FALSE),
              Order("ai", provider, member, FALSE),
              Order("notify", service, member, FALSE),
              Order("notify", service, newcomer, FALSE),
              Order("read", provider, member, FALSE),
              Order("remove", provider, member, FALSE),
              Order("open", newcomer, provider, FALSE),
              Order("recount", member, member, FALSE),
              Order("recount", newcomer, newcomer, FALSE)}

MCOpened == {<<member, provider>>, <<provider, member>>,
             <<member, service>>, <<service, member>>}
MCPopulations == {{member, provider}, {member, provider, service}}
=============================================================================
