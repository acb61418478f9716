--------------------------- MODULE MCConversation ---------------------------
(***************************************************************************)
(* A small instance of Conversation: one customer, two watches, and a few  *)
(* conversations, each a set of messages that may come in any order.       *)
(***************************************************************************)
EXTENDS Conversation

CONSTANTS daytona, sub, low, high

Say(s) == [says |-> s, type |-> None, item |-> None, fills |-> {}, price |-> None]
Wants(t, i, f, p) == [says |-> "request", type |-> t, item |-> i, fills |-> f, price |-> p]
Bare(s, t) == [Say(s) EXCEPT !.type = t]
Offer(p) == [Say("words") EXCEPT !.price = p]
Vague(i) == [Say("vague") EXCEPT !.item = i]

\* A watch is offered for sale, with corrections and commands on the way.
Selling == {Say("confirm"), Say("skip"), Say("words"), Offer(high), Say("question"), Say("market"),
            Wants("sell", daytona, {"reference", "location", "dial"}, low), Say("image")}
\* Requests that meet an open draft.
Replacing == {Say("confirm"), Say("replace"), Say("add"), Say("words"), Bare("bare", "buy"),
              Wants("buy", sub, {"reference", "location"}, low),
              Wants("sell", sub, {"reference", "location", "photo", "notes"}, low)}
\* Postings are managed while a draft is confirmed.
Managing == {Say("confirm"), Say("close"), Say("pause"), [Say("edit") EXCEPT !.price = high],
             Wants("buy", sub, {"reference", "location"}, low),
             Wants("buy", daytona, {"reference", "dial", "location"}, low)}
\* Searches, decisions and what they offer.
Searching == {Say("approve"), Say("pass"), Say("photos"), Say("escrow"), Say("yes"), Say("words"),
              Say("cancel"), Say("inventory"), Say("link"),
              Wants("buy", sub, {"reference", "location"}, low)}
\* Prompts and settings, beside the question before a membership ends.
Choosing == {Say("fire"), Say("yes"), Say("start"), Say("listings"), Say("pick"),
             Say("channel"), Say("number"), Say("reset")}
\* The end of the membership, and a return.
Leaving == {Say("fire"), Say("yes"), Say("stop"), Say("start"), Say("status"), Say("help"),
            Say("listings"), Say("reset")}
\* A first contact, unsure of the side.
Arriving == {Say("words"), Say("any"), Vague(sub), Bare("bare", "sell"), Bare("find", "buy"),
             Say("start"), Say("setting"), Say("join"), Say("hi"), Say("mine"), Offer(low)}

\* Postings paused and taken up again.
Pausing == {Say("confirm"), Say("pause"), Say("resume"),
            Wants("buy", sub, {"reference", "location"}, low)}

\* Some customers write on before a review has reached them.  Whether a
\* plan ends matters to those who leave.
With(said, beside, plan) == [said |-> said, beside |-> beside, plan |-> plan]
Conversations ==
    {With(Selling, {}, "none"), With(Replacing, {"hasty"}, "none"), With(Managing, {}, "free"),
     With(Searching, {"cards"}, "charged"), With(Arriving, {}, "none"),
     With(Pausing, {"hasty"}, "free"), With(Choosing, {}, "charged")}
    \cup {With(Leaving, {"admin"}, plan) : plan \in {"none", "free", "charged"}}
=============================================================================
