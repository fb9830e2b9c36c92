---------------------------- MODULE TransferPage ----------------------------
(***************************************************************************)
(* The page from which a player sends money (app/(app)/wallet/transfer     *)
(* /page.tsx of the web client), in front of the transfers.                *)
(*                                                                         *)
(* The page asks for confirmation, sends one request at a time with a key  *)
(* of its own for each click, and goes back to the confirmation when the   *)
(* answer is an error or does not come.  All requests of the payer are the *)
(* page's; those of other players come from anywhere.                      *)
(***************************************************************************)
EXTENDS Transfers

CONSTANTS Payer, NoRequest

VARIABLES
    page,     \* the stage of the page, the form, and the request it waits for
    asked,    \* the form each request was sent for, 0 for none: no action reads it
    unheard   \* the requests whose answer the page missed: likewise

pageVars == <<page, asked, unheard>>

\* Before it is confirmed a form may be filled in again; what it says is in the request.
PageRow == [stage : {"confirm", "busy", "done"}, request : TrReq \union {NoRequest}, form : Nat]

ASSUME PageAssumption == Payer \in User /\ NoRequest \notin TrReq

OfPage == {q \in TrReq : treq[q].sender = Payer}

-----------------------------------------------------------------------------
\* randomUUID
FreshKey(q) == \A p \in TrReq \ {q} : treq[p].stage # "new" => treq[p].key # treq[q].key

\* The button is disabled while the page is busy.
confirm(q) ==
    /\ page.stage = "confirm"
    /\ q \in OfPage /\ FreshKey(q)
    /\ SubmitTransfer(q)
    /\ page' = [page EXCEPT !.stage = "busy", !.request = q]
    /\ asked' = [asked EXCEPT ![q] = page.form]
    /\ unheard' = unheard

Waiting == page.stage = "busy"

Hear ==
    LET answer == treq[page.request].answer
    IN  /\ Waiting /\ answer # "none"
        /\ page' = [page EXCEPT !.stage = IF answer \in {"sent", "replayed"} THEN "done" ELSE "confirm",
                                !.request = NoRequest]
        /\ UNCHANGED <<trVars, asked, unheard>>

\* "Could not reach the server. Please try again."
LoseAnswer ==
    /\ Waiting
    /\ page' = [page EXCEPT !.stage = "confirm", !.request = NoRequest]
    /\ unheard' = unheard \union {page.request}
    /\ UNCHANGED <<trVars, asked>>

StartOver ==
    /\ page.stage = "done"
    /\ page' = [page EXCEPT !.stage = "confirm", !.form = @ + 1]
    /\ UNCHANGED <<trVars, asked, unheard>>

-----------------------------------------------------------------------------
PageInit ==
    /\ TransferInit
    /\ page = [stage |-> "confirm", request |-> NoRequest, form |-> 1]
    /\ asked = [q \in TrReq |-> 0] /\ unheard = {}

PageNext ==
    \/ \E q \in TrReq : confirm(q)
    \/ Hear \/ LoseAnswer \/ StartOver
    \/ TransferNext /\ ~(\E q \in OfPage : SubmitTransfer(q)) /\ UNCHANGED pageVars

PageSpec == PageInit /\ [][PageNext]_<<trVars, pageVars>>

-----------------------------------------------------------------------------
PageTypeOK == page \in PageRow /\ asked \in [TrReq -> Nat] /\ unheard \subseteq TrReq

Paid(q) == \E r \in transfers : r.sender = treq[q].sender /\ r.key = treq[q].key

\* The page cannot know whether it was paid: it heard nothing, or an error after an attempt
\* whose commit the server did not hear of either.
Unclear(q) ==
    \/ q \in unheard
    \/ treq[q].answer = "busy"
    \/ treq[q].answer = "refused" /\ treq[q].attempt > 1

(* transfer/page.tsx:3, "Double-submit is blocked": a form is paid once    *)
(* however often its button is clicked, as long as the answers arrive and  *)
(* say what happened.  An error that comes from the limit, from the balance *)
(* or from a used key means that nothing was paid, so that the next click, *)
(* whose key the server cannot know, is the first payment.                 *)
FormPaidOnce ==
    \A p, q \in OfPage :
        p # q /\ asked[p] # 0 /\ asked[p] = asked[q] /\ Paid(p) /\ Paid(q)
            => Unclear(p) \/ Unclear(q)

=============================================================================
