------------------------- MODULE MCWebhookDelivery -------------------------
(***************************************************************************)
(* A small instance of WebhookDelivery: an owner and a stranger, one       *)
(* configuration, pushes to two branches, a tag and a ping.                *)
(***************************************************************************)
EXTENDS WebhookDelivery, TLC

MCHookPerm == {<<"owner", "c1">>}

\* A valid form, one with an invalid branch, one with an unknown provider.
MCForm == [container |-> "c1", provider |-> "github", webhook_secret |-> "s1",
           branch |-> "main", command |-> "deploy"]
MCForms == {MCForm, [MCForm EXCEPT !.branch = "it's"], [MCForm EXCEPT !.provider = "gitlab"]}

\* Another secret, branch and command; the other provider; nothing at all;
\* an invalid branch.
MCNothing == [provider |-> Keep, webhook_secret |-> Keep, branch |-> Keep, command |-> Keep]
MCPatches == {[MCNothing EXCEPT !.webhook_secret = "s2", !.branch = "dev", !.command = "test"],
              [MCNothing EXCEPT !.provider = "forgejo"],
              MCNothing, [MCNothing EXCEPT !.branch = "it's"]}

MCPush(id, kind, name) ==
    [delivery_id |-> id, event_type |-> "push", ref |-> [kind |-> kind, name |-> name],
     secret |-> "s1"]
MCEvents == {MCPush("e1", "heads", "main"), MCPush("e2", "tags", "main"),
             [MCPush("e3", "heads", "main") EXCEPT !.event_type = "ping"],
             MCPush("e4", "heads", "dev"),
             [MCPush("e5", "heads", "dev") EXCEPT !.secret = "s2"]}
=============================================================================
