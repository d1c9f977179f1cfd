------------------------- MODULE MCActionEnvelope --------------------------
(* One client, every method, two calls; replies of every kind with at most *)
(* two statuses.                                                           *)
EXTENDS ActionEnvelope

Item(tag, keys, sound) == [tag |-> tag, keys |-> keys, sound |-> sound]

MCItems ==
    {Item("success", {}, TRUE), Item("waitingForFill", {}, TRUE),
     Item("none", {"resting"}, TRUE), Item("none", {"filled"}, FALSE),
     Item("none", {"error"}, TRUE), Item("none", {"error", "resting"}, TRUE),
     Item("none", {"running"}, TRUE)}

Lists == {{i, j} : i \in MCItems, j \in MCItems} \cup {{}}

Body(status, response, type, key, items) ==
    [status |-> status, response |-> response, type |-> type, key |-> key, items |-> items]

MCReplies ==
    {Body("err", "text", "none", "none", {}), Body("err", "object", "none", "none", {}),
     Body("ok", "text", "none", "none", {}), Body("none", "none", "none", "none", {}),
     Body("ok", "object", "default", "none", {})}
    \cup {Body("ok", "object", type, "statuses", items) :
             type \in {"order", "cancel"}, items \in Lists}
    \cup {Body("ok", "object", type, "status", {i}) :
             type \in {"order", "twapOrder", "twapCancel"}, i \in MCItems}
=============================================================================
