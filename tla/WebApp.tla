------------------------------- MODULE WebApp -------------------------------
(***************************************************************************)
(* The two pages of the web application on which users act: a market's    *)
(* (app/app/duels/[id]/page.tsx) and a compare duel's                      *)
(* (app/app/compare/[id]/page.tsx), one mounted page in one browser.  The  *)
(* page polls with nothing to order the answers, keeps what it shows when  *)
(* the wallet changes, and every click starts an async handler that works  *)
(* on the values of the render it was clicked in.  Every await is a step;  *)
(* an answer is what the endpoint had when it gave it, and is shown when   *)
(* it arrives.  The account on chain is the part of the program the page   *)
(* reads and calls; Market.tla and CompareDuel.tla model it in full.       *)
(*                                                                         *)
(* Two things are parameters, not state, because nothing orders them with  *)
(* a page's steps: the pause flag, which no page looks at, may be either   *)
(* at every transaction, and the browser's clock, which a page reads at    *)
(* each render, may show any time at all.                                  *)
(***************************************************************************)
EXTENDS Naturals

CONSTANTS Wallets, None,              \* None: no wallet, winner or deposit
          Mounted,                    \* the wallets a page is mounted with
          Requests,                   \* fetchData calls open at a time
          Clicks,                     \* clicks of a run, a handler each
          MaxFailures, MaxSwitches    \* bounds of the model

ASSUME WebAssumption ==
  /\ None \notin Wallets \cup {0, 1} /\ Mounted \subseteq Wallets \cup {None}
  /\ Requests \subseteq Nat /\ Clicks \subseteq Nat
  /\ MaxFailures \in Nat /\ MaxSwitches \in Nat

Side == {0, 1}
Phases == {"active", "twap", "over"}   \* before the window, in it, after

VARIABLES page,         \* the page that is mounted
          clock,        \* the phase by the cluster's clock
          chain,        \* the market or compare duel account
          own,          \* own[w]: what wallet w holds of it
          wallet,       \* the connected wallet
          view,         \* the React state the page is rendered from
          loading, depositing, withdrawing,
          request,      \* request[r]: an invocation of fetchData
          handler,      \* handler[h]: an invocation of a click handler
          failures, switches

chainVars == <<clock, chain, own>>
flags == <<depositing, withdrawing>>
bounds == <<failures, switches>>
vars == <<page, chainVars, wallet, view, loading, flags, request, handler, bounds>>

(* Invocations are numbered: the next one takes the first free number.     *)
First(i, free) == i \in free /\ \A j \in free : i <= j

Nothing == [held |-> FALSE, side |-> None, withdrawn |-> FALSE]
Closed == [pc |-> "closed", by |-> None, got |-> None]
NotClicked == [pc |-> "waiting", kind |-> "buy", side |-> 0, vault |-> 0, by |-> None]
Ended == [NotClicked EXCEPT !.pc = "ended"]

Init == /\ page \in {"market", "compare"}
        /\ clock = "active" /\ chain = [resolved |-> FALSE, winner |-> None]
        /\ own = [w \in Wallets |-> Nothing]
        /\ wallet \in Mounted
        /\ view = [found |-> FALSE, sides |-> FALSE, account |-> chain,
                   own |-> Nothing]
        /\ loading = TRUE /\ depositing = FALSE /\ withdrawing = FALSE
        /\ request = [r \in Requests |-> Closed]
        /\ handler = [h \in Clicks |-> NotClicked]
        /\ failures = 0 /\ switches = 0

-----------------------------------------------------------------------------
(* Time, the crankers that resolve and the user who changes the wallet.    *)
Pass == /\ \/ clock = "active" /\ clock' = "twap"
           \/ clock = "twap" /\ clock' = "over"
        /\ UNCHANGED <<page, chain, own, wallet, view, loading, flags, request,
                       handler, bounds>>

Resolve == /\ clock = "over" /\ ~chain.resolved
           /\ \E winner \in Side \cup {None} :
                chain' = [resolved |-> TRUE, winner |-> winner]
           /\ UNCHANGED <<page, clock, own, wallet, view, loading, flags,
                          request, handler, bounds>>

SwitchWallet ==
  /\ switches < MaxSwitches /\ switches' = switches + 1
  /\ wallet' \in (Wallets \cup {None}) \ {wallet}
  /\ UNCHANGED <<page, chainVars, view, loading, flags, request, handler, failures>>

-----------------------------------------------------------------------------
(* What the pages compute from their state at each render, now being the   *)
(* phase by the browser's clock.                                           *)
getMarketPhase(account, now) ==
  IF account.resolved \/ now = "over" THEN "resolved" ELSE now

(* mutant: the window counts as active. *)
getComparePhaseNoWindow(account, now) ==
  IF account.resolved \/ now = "over" THEN "resolved" ELSE "active"

getComparePhase(account, now) ==
  IF account.resolved \/ now = "over" THEN "resolved" ELSE now

Button(kind, side, vault) == [kind |-> kind, side |-> side, vault |-> vault]

(* Of a market one side is followed: the page shows and trades the two in  *)
(* the same way.  Once a winner is shown, a panel with a sell form; else   *)
(* the trading panel, whose sell form is there when the wallet holds some. *)
MarketButtons(now) ==
  LET phase == getMarketPhase(view.account, now)
      sell == IF phase = "resolved" THEN "sellPost" ELSE "sell"
      banner == phase = "resolved" /\ view.account.winner # None
  IN  {b \in {Button(k, 0, 0) : k \in {"buy", sell}} :
         /\ view.sides
         /\ IF b.kind = "buy" THEN phase # "resolved"
            ELSE banner \/ view.own.held}

(* A duel's page: a deposit button on each side's card ...                 *)
canDeposit(now) == /\ getComparePhase(view.account, now) = "active"
                   /\ view.own.side = None

DepositButtons(now) ==
  {b \in {Button("deposit", s, s) : s \in Side} :
     canDeposit(now) /\ ~depositing}

(* ... and one for the whole position, on the winner's vault or, after a   *)
(* draw, the deposit's.                                                    *)
canWithdraw(now) == /\ getComparePhase(view.account, now) = "resolved"
                    /\ view.own.side # None /\ ~view.own.withdrawn
                    /\ view.account.winner \in {None, view.own.side}

WithdrawButtons(now) ==
  LET winner == view.account.winner
  IN  {b \in {Button("withdraw", view.own.side,
                     IF winner # None THEN winner ELSE view.own.side)} :
         canWithdraw(now) /\ ~withdrawing}

CompareButtons(now) == DepositButtons(now) \cup WithdrawButtons(now)

Buttons(now) ==
  IF wallet = None \/ loading \/ ~view.found THEN {}
  ELSE IF page = "market" THEN MarketButtons(now) ELSE CompareButtons(now)

-----------------------------------------------------------------------------
(* fetchData: a poll, or the reload two seconds after a transaction.       *)
Asks(r, pc, w) ==
  request' = [request EXCEPT ![r] = [pc |-> pc, by |-> w, got |-> None]]

StartFetch(r, w) ==
  /\ First(r, {q \in Requests : request[q].pc = "closed"})
  /\ Asks(r, "account", w)

(* mutant: no more polls once the page shows the resolution. *)
PollUntilResolved(r) ==
  /\ ~view.account.resolved /\ StartFetch(r, wallet)
  /\ UNCHANGED <<page, chainVars, wallet, view, loading, flags, handler, bounds>>

Poll(r) ==
  /\ StartFetch(r, wallet)
  /\ UNCHANGED <<page, chainVars, wallet, view, loading, flags, handler, bounds>>

FetchEnds(r) == /\ request' = [request EXCEPT ![r] = Closed]
                /\ loading' = FALSE

(* The endpoint answers with what it has at this moment.  Of the sides and *)
(* their vaults the page needs the addresses, which do not change (their   *)
(* amounts only feed the estimates): any answer will do.                   *)
Answer(r) ==
  LET asked == request[r]
  IN  /\ asked.pc \in {"account", "own"} /\ asked.got = None
      /\ request' = [request EXCEPT ![r].got =
           IF asked.pc = "account" THEN chain ELSE own[asked.by]]
      /\ UNCHANGED <<page, chainVars, wallet, view, loading, flags, handler,
                     bounds>>

Arrived(r, pc) == request[r].pc = pc /\ request[r].got # None

(* The account is shown as soon as it has come; then the rest is read for  *)
(* the wallet of the render fetchData belongs to.                          *)
FetchAccount(r) ==
  /\ Arrived(r, "account")
  /\ view' = [view EXCEPT !.found = TRUE, !.account = request[r].got]
  /\ \/ page = "market" /\ Asks(r, "sides", request[r].by) /\ UNCHANGED loading
     \/ /\ page = "compare" /\ request[r].by # None
        /\ Asks(r, "own", request[r].by) /\ UNCHANGED loading
     \/ page = "compare" /\ request[r].by = None /\ FetchEnds(r)
  /\ UNCHANGED <<page, chainVars, wallet, flags, handler, bounds>>

FetchSides(r) ==
  /\ request[r].pc = "sides"
  /\ view' = [view EXCEPT !.sides = TRUE]
  /\ IF request[r].by = None THEN FetchEnds(r)
     ELSE Asks(r, "own", request[r].by) /\ UNCHANGED loading
  /\ UNCHANGED <<page, chainVars, wallet, flags, handler, bounds>>

(* The token balance on a market's page, the deposit on a duel's.          *)
ShowOwn(r, found) == view' = [view EXCEPT !.own = found] /\ FetchEnds(r)

FetchOwn(r) ==
  /\ Arrived(r, "own") /\ ShowOwn(r, request[r].got)
  /\ UNCHANGED <<page, chainVars, wallet, flags, handler, bounds>>

(* A failed request for the account or the sides ends fetchData; a failed  *)
(* one for a balance or a deposit counts as none.                          *)
FetchFails(r) ==
  /\ failures < MaxFailures /\ failures' = failures + 1
  /\ \/ /\ request[r].pc \in {"account", "sides"}
        /\ FetchEnds(r) /\ UNCHANGED view
     \/ request[r].pc = "own" /\ ShowOwn(r, Nothing)
  /\ UNCHANGED <<page, chainVars, wallet, flags, handler, switches>>

-----------------------------------------------------------------------------
(* The handlers.  Only the compare page marks one as pending.  The lookups *)
(* and the approval before the transaction arrives are one wait: they      *)
(* change nothing, and what they use was fixed by the click.               *)
Mark(kind, pending) ==
  /\ depositing' = IF kind = "deposit" THEN pending ELSE depositing
  /\ withdrawing' = IF kind = "withdraw" THEN pending ELSE withdrawing

Click(h) ==
  /\ First(h, {g \in Clicks : handler[g].pc = "waiting"})
  /\ \E now \in Phases : \E b \in Buttons(now) :
       /\ handler' = [handler EXCEPT ![h] =
            [pc |-> "sent", kind |-> b.kind, side |-> b.side,
             vault |-> b.vault, by |-> wallet]]
       /\ Mark(b.kind, TRUE)
  /\ UNCHANGED <<page, chainVars, wallet, view, loading, request, bounds>>

(* What the program makes of the transaction when it arrives.  Of the five *)
(* instructions only withdraw does not ask whether the protocol is paused. *)
BuyAccepted(w, paused) == ~paused /\ ~chain.resolved /\ clock # "over"
SellAccepted(w, paused) ==
  ~paused /\ ~chain.resolved /\ clock # "over" /\ own[w].held
SellPostAccepted(w, paused) ==
  ~paused /\ chain.resolved /\ chain.winner = None /\ own[w].held
DepositAccepted(w, paused) ==
  ~paused /\ ~chain.resolved /\ clock = "active" /\ own[w].side = None
WithdrawAccepted(w, vault) ==
  /\ chain.resolved /\ own[w].side # None /\ ~own[w].withdrawn
  /\ chain.winner \in {None, own[w].side} => vault = own[w].side

Accepted(b, w, paused) ==
  CASE b.kind = "buy" -> BuyAccepted(w, paused)
    [] b.kind = "sell" -> SellAccepted(w, paused)
    [] b.kind = "sellPost" -> SellPostAccepted(w, paused)
    [] b.kind = "deposit" -> DepositAccepted(w, paused)
    [] b.kind = "withdraw" -> WithdrawAccepted(w, b.vault)

Bought(w) == own' = [own EXCEPT ![w].held = TRUE]
Sold(w) == \E rest \in BOOLEAN : own' = [own EXCEPT ![w].held = rest]
Deposited(w, side) == own' = [own EXCEPT ![w].side = side]
Withdrawn(w) == own' = [own EXCEPT ![w].withdrawn = TRUE]

Effect(b, w) == CASE b.kind = "buy" -> Bought(w)
                  [] b.kind \in {"sell", "sellPost"} -> Sold(w)
                  [] b.kind = "deposit" -> Deposited(w, b.side)
                  [] b.kind = "withdraw" -> Withdrawn(w)

Land(h) ==
  /\ handler[h].pc = "sent"
  /\ \E paused \in BOOLEAN : Accepted(handler[h], handler[h].by, paused)
  /\ Effect(handler[h], handler[h].by)
  /\ handler' = [handler EXCEPT ![h].pc = "confirm", ![h].side = 0, ![h].vault = 0]
  /\ UNCHANGED <<page, clock, chain, wallet, view, loading, flags, request, bounds>>

Confirm(h) ==
  /\ handler[h].pc = "confirm"
  /\ handler' = [handler EXCEPT ![h] = [NotClicked EXCEPT !.pc = "reload",
                                                         !.by = handler[h].by]]
  /\ Mark(handler[h].kind, FALSE)
  /\ UNCHANGED <<page, chainVars, wallet, view, loading, request, bounds>>

(* The timer of a confirmed transaction calls the fetchData of its render. *)
Reload(h) ==
  /\ handler[h].pc = "reload"
  /\ \E r \in Requests : StartFetch(r, handler[h].by)
  /\ handler' = [handler EXCEPT ![h] = Ended]
  /\ UNCHANGED <<page, chainVars, wallet, view, loading, flags, bounds>>

(* mutant: the pending mark is cleared after a success only. *)
EndsKeepingMark(h) == /\ handler' = [handler EXCEPT ![h] = Ended]
                      /\ UNCHANGED flags

Ends(h) == /\ handler' = [handler EXCEPT ![h] = Ended]
           /\ Mark(handler[h].kind, FALSE)

(* A lookup fails, the user declines, or the program rejects.              *)
Refused(h) ==
  /\ handler[h].pc = "sent" /\ Ends(h)
  /\ UNCHANGED <<page, chainVars, wallet, view, loading, request, bounds>>

(* The confirmation times out on a transaction that has landed: the        *)
(* handler reports a failure and reloads nothing.                          *)
TimesOut(h) ==
  /\ handler[h].pc = "confirm" /\ Ends(h)
  /\ failures < MaxFailures /\ failures' = failures + 1
  /\ UNCHANGED <<page, chainVars, wallet, view, loading, request, switches>>

-----------------------------------------------------------------------------
FetchStep(r) == Answer(r) \/ FetchAccount(r) \/ FetchSides(r) \/ FetchOwn(r)

Next == \/ Pass \/ Resolve \/ SwitchWallet
        \/ \E r \in Requests : Poll(r) \/ FetchStep(r) \/ FetchFails(r)
        \/ \E h \in Clicks : \/ Click(h) \/ Land(h) \/ Confirm(h)
                             \/ Reload(h) \/ Refused(h) \/ TimesOut(h)

(* The interval timer keeps firing and some request is always answered in  *)
(* the end, while another may hang for ever; no fairness for the user, the *)
(* wallet, a transaction, its reload, time or a cranker.                   *)
Fairness == WF_vars(\E r \in Requests : Poll(r) \/ FetchStep(r))

Spec == Init /\ [][Next]_vars
FairSpec == Spec /\ Fairness

-----------------------------------------------------------------------------
Fresh == /\ view.found /\ view.account = chain
         /\ wallet # None => view.own = own[wallet]

Before(p, q) ==
  <<p, q>> \in {<<"active", "twap">>, <<"active", "over">>, <<"twap", "over">>}

(* Buttons the program refuses however fresh the page is.  No page looks   *)
(* at the pause (buy_tokens.rs:81, sell_tokens.rs:81,                      *)
(* sell_post_resolution.rs:68, deposit.rs:46).  The winner panel builds    *)
(* sell_post_resolution, which needs a market without a winner             *)
(* (sell_post_resolution.rs:18).  A page whose clock is past the deadline  *)
(* shows a resolution, or a draw, before there is one (lib/program.ts:170),*)
(* and one whose clock is behind still offers to trade or to deposit.      *)
DeadButton(b, now, paused) ==
  \/ paused /\ b.kind # "withdraw"
  \/ b.kind = "sellPost" /\ chain.winner # None
  \/ b.kind \in {"sellPost", "withdraw"} /\ ~chain.resolved
  \/ /\ Before(now, clock)
     /\ b.kind = "deposit" \/ (b.kind \in {"buy", "sell"} /\ clock = "over")

(* What a wallet can gain by; a loser's withdrawal pays nothing.           *)
Worthwhile(w) ==
  IF page = "market" THEN {Button(k, 0, 0) : k \in {"buy", "sell", "sellPost"}}
  ELSE {Button("deposit", s, s) : s \in Side}
         \cup {Button("withdraw", s, s) :
                 s \in {s \in Side : own[w].side = s
                                    /\ chain.winner \in {None, s}}}

(* On a page that shows what is on chain, whatever its own clock and the   *)
(* pause flag, the program accepts the transaction of every enabled        *)
(* button, the vault it names included, but for exactly the dead ones; and *)
(* what a wallet gains by is never withheld, except while one of the kind  *)
(* is pending or, before the resolution, on a page whose clock is ahead: a *)
(* wrong clock locks nobody out of a payout (duels/[id]/page.tsx:457, 1086;*)
(* compare/[id]/page.tsx:214-215, 392-397).                                *)
ButtonsWork ==
  Fresh =>
    \A now \in Phases, paused \in BOOLEAN :
      /\ \A b \in Buttons(now) :
           Accepted(b, wallet, paused) <=> ~DeadButton(b, now, paused)
      /\ wallet # None /\ ~loading /\ (page = "market" => view.sides) =>
           \A b \in Worthwhile(wallet) \ Buttons(now) :
             Accepted(b, wallet, paused) =>
               \/ b.kind = "deposit" /\ depositing
               \/ b.kind = "withdraw" /\ withdrawing
               \/ Before(clock, now) /\ ~chain.resolved

Pending(kind) ==
  {h \in Clicks : handler[h].kind = kind /\
                  handler[h].pc \in {"sent", "confirm"}}

(* On every way through a handler, failures, refusals and wallet switches  *)
(* included, a pending mark is set exactly while one deposit or withdrawal *)
(* is under way, never two (compare/[id]/page.tsx:291, 357, 364, 424).     *)
FlagsTrue ==
  /\ depositing <=> Pending("deposit") # {}
  /\ withdrawing <=> Pending("withdraw") # {}
  /\ \A kind \in {"deposit", "withdraw"} :
       \A g, h \in Pending(kind) : g = h

(* Whatever late answers, reloads of a wallet that is gone and failed      *)
(* requests have put on the page, the older answer over the newer too, it  *)
(* ends up showing the account and what the connected wallet has of it     *)
(* (duels/[id]/page.tsx:296-304).                                          *)
PageConverges == <>[]Fresh
=============================================================================
