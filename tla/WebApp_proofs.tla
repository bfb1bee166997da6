---------------------------- MODULE WebApp_proofs ----------------------------
(***************************************************************************)
(* The pages' pending marks and buttons, for every number of open handlers *)
(* and requests, of wallets and of their changes.                          *)
(***************************************************************************)
EXTENDS WebApp, TLAPS

Position == [held : BOOLEAN, side : Side \cup {None}, withdrawn : BOOLEAN]
Account == [resolved : BOOLEAN, winner : Side \cup {None}]
KindsOfButton == {"buy", "sell", "sellPost", "deposit", "withdraw"}
Handler == [pc : {"waiting", "sent", "confirm", "reload", "ended"}, kind : KindsOfButton,
            side : Side \cup {None}, vault : Side \cup {None},
            by : Wallets \cup {None}]
Fetch == [pc : {"closed", "account", "sides", "own"}, by : Wallets \cup {None},
          got : Account \cup Position \cup {None}]

(* An answer fits its question, and only a wallet's position is asked for. *)
Fitting(asked) ==
  /\ asked.pc = "account" => asked.got \in Account \cup {None}
  /\ asked.pc = "own" => asked.by # None /\ asked.got \in Position \cup {None}

Typed == /\ chain \in Account /\ own \in [Wallets -> Position]
         /\ wallet \in Wallets \cup {None}
         /\ view \in [found : BOOLEAN, sides : BOOLEAN, account : Account,
                      own : Position]
         /\ request \in [Requests -> Fetch]
         /\ \A r \in Requests : Fitting(request[r])
         /\ handler \in [Clicks -> Handler]
         /\ depositing \in BOOLEAN /\ withdrawing \in BOOLEAN

ChainFits == /\ clock \in Phases
             /\ ~chain.resolved => chain.winner = None

LEMMA ButtonsTyped ==
  ASSUME Typed
  PROVE  \A now \in Phases : \A b \in Buttons(now) :
           /\ b.kind \in KindsOfButton /\ b.side \in Side \cup {None}
           /\ b.vault \in Side \cup {None}
           /\ b.kind = "deposit" => ~depositing
           /\ b.kind = "withdraw" => ~withdrawing
<1>1. view.own.side \in Side \cup {None} /\ view.account.winner \in Side \cup {None}
  BY DEF Typed, Position, Account
<1>2. \A now : \A b \in MarketButtons(now) :
        b.kind \in {"buy", "sell", "sellPost"} /\ b.side \in Side /\ b.vault \in Side
  BY DEF MarketButtons, Button, Side
<1>3. \A now : \A b \in CompareButtons(now) :
        /\ b.kind \in {"deposit", "withdraw"} /\ b.side \in Side \cup {None}
        /\ b.vault \in Side \cup {None}
        /\ b.kind = "deposit" => ~depositing
        /\ b.kind = "withdraw" => ~withdrawing
  BY <1>1 DEF CompareButtons, DepositButtons, WithdrawButtons, Button
<1> QED
  BY <1>2, <1>3 DEF Buttons, KindsOfButton

FlagsInv == Typed /\ FlagsTrue

LEMMA FlagsInit == Init => FlagsInv
<1> SUFFICES ASSUME Init PROVE FlagsInv
  OBVIOUS
<1>1. Typed
  BY WebAssumption DEF Init, Typed, Account, Position, Nothing, Fetch, Closed,
                       Handler, NotClicked, KindsOfButton, Side, Fitting
<1>2. \A h \in Clicks : handler[h].pc = "waiting"
  BY DEF Init, NotClicked
<1> QED
  BY <1>1, <1>2 DEF FlagsInv, FlagsTrue, Pending, Init

(* Steps that touch no handler and no mark. *)
LEMMA UntouchedFlags ==
  ASSUME FlagsTrue, UNCHANGED <<handler, flags>>
  PROVE  FlagsTrue'
BY DEF FlagsTrue, Pending, flags

(* What becomes of one request. *)
LEMMA RequestTyped ==
  ASSUME Typed, NEW r \in Requests, NEW new \in Fetch, Fitting(new),
         request' = [request EXCEPT ![r] = new]
  PROVE  request' \in [Requests -> Fetch] /\ \A q \in Requests : Fitting(request'[q])
BY DEF Typed

LEMMA AsksTyped ==
  ASSUME Typed, NEW r \in Requests, NEW w \in Wallets \cup {None},
         NEW pc \in {"account", "sides", "own"}, pc = "own" => w # None,
         Asks(r, pc, w)
  PROVE  request' \in [Requests -> Fetch] /\ \A q \in Requests : Fitting(request'[q])
<1> DEFINE new == [pc |-> pc, by |-> w, got |-> None]
<1>1. new \in Fetch /\ Fitting(new)
  BY DEF Fetch, Fitting
<1> QED
  BY <1>1, RequestTyped DEF Asks

LEMMA ClickKeeps ==
  ASSUME FlagsInv, NEW h \in Clicks, Click(h)
  PROVE  FlagsInv'
<1>0. PICK now \in Phases :
        \E b \in Buttons(now) :
          /\ handler' = [handler EXCEPT ![h] =
               [pc |-> "sent", kind |-> b.kind, side |-> b.side,
                vault |-> b.vault, by |-> wallet]]
          /\ Mark(b.kind, TRUE)
  BY DEF Click
<1>1. PICK b \in Buttons(now) :
        /\ handler' = [handler EXCEPT ![h] =
             [pc |-> "sent", kind |-> b.kind, side |-> b.side,
              vault |-> b.vault, by |-> wallet]]
        /\ Mark(b.kind, TRUE)
  BY <1>0
<1>2. /\ b.kind \in KindsOfButton /\ b.side \in Side \cup {None}
      /\ b.vault \in Side \cup {None}
      /\ b.kind = "deposit" => ~depositing
      /\ b.kind = "withdraw" => ~withdrawing
  BY ButtonsTyped DEF FlagsInv
<1>3. /\ handler[h].pc = "waiting" /\ handler \in [Clicks -> Handler]
      /\ UNCHANGED <<chain, own, wallet, view, request>>
  BY DEF Click, First, FlagsInv, Typed, chainVars
<1>4. handler' \in [Clicks -> Handler]
  BY <1>1, <1>2, <1>3 DEF Handler, FlagsInv, Typed
<1>5. depositing' \in BOOLEAN /\ withdrawing' \in BOOLEAN
  BY <1>1, Zenon DEF Mark, FlagsInv, Typed
<1>6. Typed'
  BY <1>3, <1>4, <1>5 DEF FlagsInv, Typed
<1>7. \A kind : Pending(kind)' = IF kind = b.kind THEN Pending(kind) \cup {h}
                                                  ELSE Pending(kind)
  BY <1>1, <1>3 DEF Pending
<1>8. /\ b.kind = "deposit" => Pending("deposit") = {}
      /\ b.kind = "withdraw" => Pending("withdraw") = {}
  BY <1>2 DEF FlagsInv, FlagsTrue
<1>9. /\ depositing' <=> (depositing \/ b.kind = "deposit")
      /\ withdrawing' <=> (withdrawing \/ b.kind = "withdraw")
  BY <1>1 DEF Mark
<1> QED
  BY <1>6, <1>7, <1>8, <1>9 DEF FlagsInv, FlagsTrue

(* A handler that ends, or is confirmed, was the only one of its mark.     *)
LEMMA LeavingKeeps ==
  ASSUME FlagsInv, NEW h \in Clicks, NEW new \in Handler,
         handler[h].pc \in {"sent", "confirm"},
         handler' = [handler EXCEPT ![h] = new],
         new.pc \in {"ended", "reload"}, Mark(handler[h].kind, FALSE)
  PROVE  FlagsTrue' /\ handler' \in [Clicks -> Handler]
         /\ depositing' \in BOOLEAN /\ withdrawing' \in BOOLEAN
<1> DEFINE k == handler[h].kind
<1>1. handler \in [Clicks -> Handler] /\ h \in Pending(k)
  BY DEF FlagsInv, Typed, Pending
<1>2. \A kind : Pending(kind)' = Pending(kind) \ {h}
  BY <1>1 DEF Pending
<1>3. \A kind : kind # k => h \notin Pending(kind)
  BY DEF Pending
<1>4. k \in {"deposit", "withdraw"} => Pending(k) = {h}
  BY <1>1 DEF FlagsInv, FlagsTrue
<1>5. /\ depositing' <=> (depositing /\ k # "deposit")
      /\ withdrawing' <=> (withdrawing /\ k # "withdraw")
      /\ depositing' \in BOOLEAN /\ withdrawing' \in BOOLEAN
  BY Zenon DEF Mark, FlagsInv, Typed
<1>6. FlagsTrue'
  BY <1>2, <1>3, <1>4, <1>5 DEF FlagsInv, FlagsTrue
<1> QED
  BY <1>1, <1>5, <1>6

LEMMA LandKeeps ==
  ASSUME FlagsInv, NEW h \in Clicks, Land(h)
  PROVE  FlagsInv'
<1>1. /\ handler' = [handler EXCEPT ![h].pc = "confirm", ![h].side = 0,
                                     ![h].vault = 0]
      /\ UNCHANGED <<chain, wallet, view, request, depositing, withdrawing>>
      /\ handler[h].pc = "sent"
      /\ Effect(handler[h], handler[h].by)
  BY DEF Land, flags
<1>2. /\ handler[h] \in Handler /\ handler \in [Clicks -> Handler]
      /\ own \in [Wallets -> Position]
  BY DEF FlagsInv, Typed
<1>3. handler' \in [Clicks -> Handler]
  BY <1>1, <1>2 DEF Handler, Side
<1>4. own' \in [Wallets -> Position]
  <2> DEFINE w == handler[h].by
             s == handler[h].side
  <2>1. s \in Side \cup {None}
    BY <1>2 DEF Handler
  <2>2. CASE handler[h].kind \in {"buy", "sell", "sellPost"}
    <3>1. \E rest \in BOOLEAN : own' = [own EXCEPT ![w].held = rest]
      BY <1>1, <2>2 DEF Effect, Bought, Sold
    <3> QED
      BY <1>2, <3>1 DEF Position
  <2>3. CASE handler[h].kind = "deposit"
    <3>1. own' = [own EXCEPT ![w].side = s]
      BY <1>1, <2>3 DEF Effect, Deposited
    <3> QED
      BY <1>2, <2>1, <3>1 DEF Position
  <2>4. CASE handler[h].kind = "withdraw"
    <3>1. own' = [own EXCEPT ![w].withdrawn = TRUE]
      BY <1>1, <2>4 DEF Effect, Withdrawn
    <3> QED
      BY <1>2, <3>1 DEF Position
  <2> QED
    BY <1>2, <2>2, <2>3, <2>4 DEF Handler, KindsOfButton
<1>5. \A kind : Pending(kind)' = Pending(kind)
  BY <1>1, <1>2 DEF Pending, Handler
<1>6. FlagsTrue'
  BY <1>1, <1>5 DEF FlagsInv, FlagsTrue
<1> QED
  BY <1>1, <1>3, <1>4, <1>6 DEF FlagsInv, Typed

LEMMA HandlerKeeps ==
  ASSUME FlagsInv, NEW h \in Clicks,
         Confirm(h) \/ Reload(h) \/ Refused(h) \/ TimesOut(h)
  PROVE  FlagsInv'
<1>1. /\ handler \in [Clicks -> Handler] /\ Typed
      /\ handler[h].by \in Wallets \cup {None}
  BY DEF FlagsInv, Typed, Handler
<1>2. /\ NotClicked \in Handler /\ Ended \in Handler /\ Ended.pc = "ended"
  BY DEF NotClicked, Ended, Handler, KindsOfButton, Side
<1>3. CASE Confirm(h)
  <2> DEFINE new == [NotClicked EXCEPT !.pc = "reload", !.by = handler[h].by]
  <2>1. new \in Handler /\ new.pc = "reload"
    BY <1>1, <1>2 DEF Handler
  <2> HIDE DEF new
  <2>2. /\ handler[h].pc = "confirm" /\ handler' = [handler EXCEPT ![h] = new]
        /\ Mark(handler[h].kind, FALSE)
        /\ UNCHANGED <<chain, own, wallet, view, request>>
    BY <1>3 DEF Confirm, new, chainVars
  <2>3. /\ FlagsTrue' /\ handler' \in [Clicks -> Handler]
        /\ depositing' \in BOOLEAN /\ withdrawing' \in BOOLEAN
    BY <2>1, <2>2, LeavingKeeps
  <2> QED
    BY <1>1, <2>2, <2>3 DEF FlagsInv, Typed
<1>4. CASE Refused(h) \/ TimesOut(h)
  <2>1. /\ handler[h].pc \in {"sent", "confirm"}
        /\ handler' = [handler EXCEPT ![h] = Ended]
        /\ Mark(handler[h].kind, FALSE)
        /\ UNCHANGED <<chain, own, wallet, view, request>>
    BY <1>4 DEF Refused, TimesOut, Ends, chainVars
  <2>2. /\ FlagsTrue' /\ handler' \in [Clicks -> Handler]
        /\ depositing' \in BOOLEAN /\ withdrawing' \in BOOLEAN
    BY <1>2, <2>1, LeavingKeeps
  <2> QED
    BY <1>1, <2>1, <2>2 DEF FlagsInv, Typed
<1>5. CASE Reload(h)
  <2>1. /\ handler[h].pc = "reload" /\ handler' = [handler EXCEPT ![h] = Ended]
        /\ UNCHANGED <<chain, own, wallet, view, depositing, withdrawing>>
    BY <1>5 DEF Reload, chainVars, flags
  <2>2. request' \in [Requests -> Fetch] /\ \A q \in Requests : Fitting(request'[q])
    BY <1>1, <1>5, AsksTyped DEF Reload, StartFetch
  <2>3. \A kind : Pending(kind)' = Pending(kind)
    BY <1>1, <1>2, <2>1 DEF Pending
  <2>4. handler' \in [Clicks -> Handler]
    BY <1>1, <1>2, <2>1
  <2>5. FlagsTrue'
    BY <2>1, <2>3 DEF FlagsInv, FlagsTrue
  <2> QED
    BY <1>1, <2>1, <2>2, <2>4, <2>5 DEF FlagsInv, Typed
<1> QED
  BY <1>3, <1>4, <1>5

LEMMA FetchKeeps ==
  ASSUME FlagsInv, NEW r \in Requests, Poll(r) \/ FetchStep(r) \/ FetchFails(r)
  PROVE  FlagsInv'
<1>1. UNCHANGED <<chain, own, wallet, handler, flags>>
  BY DEF Poll, FetchStep, Answer, FetchAccount, FetchSides, FetchOwn, FetchFails,
         chainVars
<1>2. FlagsTrue'
  BY <1>1, UntouchedFlags DEF FlagsInv
<1>3. /\ Typed /\ request[r] \in Fetch /\ Fitting(request[r])
      /\ request[r].by \in Wallets \cup {None}
      /\ wallet \in Wallets \cup {None} /\ chain \in Account
      /\ own \in [Wallets -> Position] /\ Nothing \in Position
  BY DEF FlagsInv, Typed, Fetch, Nothing, Position
<1>4. request' \in [Requests -> Fetch] /\ \A q \in Requests : Fitting(request'[q])
  <2>1. CASE Poll(r)
    BY <1>3, <2>1, AsksTyped DEF Poll, StartFetch
  <2>2. CASE FetchEnds(r)
    <3>1. Closed \in Fetch /\ Fitting(Closed)
      BY DEF Closed, Fetch, Fitting
    <3> QED
      BY <1>3, <2>2, <3>1, RequestTyped DEF FetchEnds
  <2>3. CASE Answer(r)
    <3> DEFINE found == IF request[r].pc = "account" THEN chain
                        ELSE own[request[r].by]
               new == [request[r] EXCEPT !.got = found]
    <3>1. /\ request[r].pc \in {"account", "own"}
          /\ request' = [request EXCEPT ![r] = new]
      BY <2>3 DEF Answer
    <3>2. /\ request[r].pc = "account" => found \in Account
          /\ request[r].pc = "own" => found \in Position
      BY <1>3 DEF Fitting
    <3>3. new \in Fetch /\ Fitting(new)
      BY <1>3, <3>1, <3>2 DEF Fetch, Fitting
    <3> HIDE DEF new
    <3> QED
      BY <1>3, <3>1, <3>3, RequestTyped
  <2>4. CASE Asks(r, "sides", request[r].by)
    BY <1>3, <2>4, AsksTyped
  <2>5. CASE Asks(r, "own", request[r].by) /\ request[r].by # None
    BY <1>3, <2>5, AsksTyped
  <2> QED
    BY <2>1, <2>2, <2>3, <2>4, <2>5
       DEF FetchStep, FetchAccount, FetchSides, FetchOwn, FetchFails, ShowOwn
<1>5. view' \in [found : BOOLEAN, sides : BOOLEAN, account : Account,
                 own : Position]
  <2> DEFINE View == [found : BOOLEAN, sides : BOOLEAN, account : Account,
                      own : Position]
  <2>0. view \in View
    BY <1>3 DEF Typed
  <2>1. CASE FetchAccount(r)
    <3>1. request[r].got \in Account
      BY <1>3, <2>1 DEF FetchAccount, Arrived, Fitting
    <3> QED
      BY <2>0, <2>1, <3>1 DEF FetchAccount
  <2>2. CASE FetchSides(r)
    BY <2>0, <2>2 DEF FetchSides
  <2>3. ASSUME NEW found \in Position, ShowOwn(r, found)
        PROVE  view' \in View
    BY <2>0, <2>3 DEF ShowOwn
  <2>4. CASE FetchOwn(r)
    <3>1. request[r].got \in Position
      BY <1>3, <2>4 DEF FetchOwn, Arrived, Fitting
    <3> QED
      BY <2>3, <2>4, <3>1 DEF FetchOwn
  <2>5. CASE Poll(r) \/ Answer(r) \/ FetchFails(r)
    BY <1>3, <2>0, <2>3, <2>5 DEF Poll, Answer, FetchFails
  <2> QED
    BY <2>1, <2>2, <2>4, <2>5 DEF FetchStep
<1>6. depositing' \in BOOLEAN /\ withdrawing' \in BOOLEAN
  BY <1>1, Zenon DEF FlagsInv, Typed, flags
<1> QED
  BY <1>1, <1>2, <1>3, <1>4, <1>5, <1>6 DEF FlagsInv, Typed

LEMMA FlagsKept ==
  ASSUME FlagsInv, [Next]_vars
  PROVE  FlagsInv'
<1>1. CASE UNCHANGED vars
  BY <1>1 DEF FlagsInv, Typed, FlagsTrue, Pending, vars, chainVars, flags
<1>2. CASE Pass \/ Resolve \/ SwitchWallet
  <2>1. UNCHANGED <<own, view, request, handler, depositing, withdrawing>>
    BY <1>2 DEF Pass, Resolve, SwitchWallet, chainVars, flags
  <2>2. wallet \in Wallets \cup {None} /\ chain \in Account
    BY DEF FlagsInv, Typed
  <2>3. wallet' \in Wallets \cup {None}
    BY <1>2, <2>2 DEF Pass, Resolve, SwitchWallet
  <2>4. ASSUME Resolve PROVE chain' \in Account
    <3>1. PICK winner \in Side \cup {None} :
                 chain' = [resolved |-> TRUE, winner |-> winner]
      BY <2>4 DEF Resolve
    <3> QED
      BY <3>1 DEF Account
  <2>5. ASSUME Pass \/ SwitchWallet PROVE chain' \in Account
    BY <2>2, <2>5 DEF Pass, SwitchWallet, chainVars
  <2>6. chain' \in Account
    BY <1>2, <2>4, <2>5
  <2> QED
    BY <2>1, <2>3, <2>6 DEF FlagsInv, Typed, FlagsTrue, Pending
<1>3. ASSUME NEW r \in Requests, Poll(r) \/ FetchStep(r) \/ FetchFails(r)
      PROVE  FlagsInv'
  BY <1>3, FetchKeeps
<1>4. ASSUME NEW h \in Clicks,
             \/ Click(h) \/ Land(h) \/ Confirm(h) \/ Reload(h)
             \/ Refused(h) \/ TimesOut(h)
      PROVE  FlagsInv'
  BY <1>4, ClickKeeps, LandKeeps, HandlerKeeps
<1> QED
  BY <1>1, <1>2, <1>3, <1>4 DEF Next

(* However many clicks, wallet switches, refusals and lost confirmations,  *)
(* a pending mark is set exactly while one handler of its kind is under    *)
(* way (compare/[id]/page.tsx:291, 357, 364, 424).                         *)
THEOREM WebFlagsTrue == Spec => []FlagsTrue
<1>1. FlagsInv => FlagsTrue
  BY DEF FlagsInv
<1>2. FlagsInv /\ [Next]_vars => FlagsInv'
  BY FlagsKept
<1> QED
  BY <1>1, <1>2, FlagsInit, PTL DEF Spec

(* The first half: what a current page enables.                            *)
LEMMA EnabledButtons ==
  ASSUME FlagsInv, ChainFits, Fresh, NEW now \in Phases, NEW paused \in BOOLEAN,
         NEW b \in Buttons(now)
  PROVE  Accepted(b, wallet, paused) <=> ~DeadButton(b, now, paused)
<1> DEFINE mine == own[wallet]
           phase == getMarketPhase(chain, now)
<1>1. /\ wallet # None /\ view.account = chain /\ view.own = own[wallet]
      /\ b \in MarketButtons(now) \/ b \in CompareButtons(now)
  BY DEF Fresh, Buttons
<1>2. /\ chain.resolved \in BOOLEAN /\ chain.winner \in Side \cup {None}
      /\ ~chain.resolved => chain.winner = None
      /\ clock \in Phases
  BY DEF FlagsInv, Typed, Account, ChainFits
<1>3. phase = "resolved" <=> (chain.resolved \/ now = "over")
  BY DEF getMarketPhase, Phases
<1>4. /\ Before(now, clock) <=> \/ now = "active" /\ clock # "active"
                                \/ now = "twap" /\ clock = "over"
      /\ now = "over" \/ now = "twap" \/ now = "active"
  BY <1>2 DEF Before, Phases
<1>5. CASE b \in MarketButtons(now)
  <2>1. /\ b.kind = "buy" => phase # "resolved"
        /\ b.kind = "sell" => phase # "resolved" /\ mine.held
        /\ b.kind = "sellPost" => /\ phase = "resolved"
                                  /\ chain.winner # None \/ mine.held
        /\ b.kind \in {"buy", "sell", "sellPost"}
    BY <1>1, <1>5 DEF MarketButtons, Button
  <2>2. CASE b.kind = "buy"
    BY <1>3, <1>4, <2>1, <2>2 DEF Accepted, BuyAccepted, DeadButton
  <2>3. CASE b.kind = "sell"
    BY <1>3, <1>4, <2>1, <2>3 DEF Accepted, SellAccepted, DeadButton
  <2>4. CASE b.kind = "sellPost"
    BY <1>2, <1>3, <2>1, <2>4 DEF Accepted, SellPostAccepted, DeadButton
  <2> QED
    BY <2>1, <2>2, <2>3, <2>4
<1>6. CASE b \in CompareButtons(now)
  <2>1. phase = getComparePhase(chain, now)
    BY DEF getMarketPhase, getComparePhase
  <2>2. /\ b.kind \in {"deposit", "withdraw"}
        /\ b.kind = "deposit" => phase = "active" /\ mine.side = None
        /\ b.kind = "withdraw" =>
             /\ phase = "resolved" /\ mine.side # None /\ ~mine.withdrawn
             /\ chain.winner \in {None, mine.side}
             /\ b.vault = IF chain.winner # None THEN chain.winner ELSE mine.side
    BY <1>1, <1>6, <2>1
       DEF CompareButtons, DepositButtons, WithdrawButtons, canDeposit,
           canWithdraw, Button
  <2>3. CASE b.kind = "deposit"
    <3>1. now = "active" /\ ~chain.resolved /\ mine.side = None
      BY <2>2, <2>3 DEF getMarketPhase, Phases
    <3>2. Accepted(b, wallet, paused) <=> ~paused /\ clock = "active"
      BY <2>3, <3>1 DEF Accepted, DepositAccepted
    <3>3. DeadButton(b, now, paused) <=> paused \/ clock # "active"
      BY <1>4, <2>3, <3>1 DEF DeadButton
    <3> QED
      BY <3>2, <3>3
  <2>4. CASE b.kind = "withdraw"
    <3>1. Accepted(b, wallet, paused) <=> chain.resolved
      BY <1>2, <2>2, <2>4 DEF Accepted, WithdrawAccepted
    <3>2. DeadButton(b, now, paused) <=> ~chain.resolved
      BY <2>4 DEF DeadButton
    <3> QED
      BY <3>1, <3>2
  <2> QED
    BY <2>2, <2>3, <2>4
<1> QED
  BY <1>1, <1>5, <1>6

(* The second half: what it may not withhold.                              *)
LEMMA OfferedButtons ==
  ASSUME FlagsInv, ChainFits, Fresh, NEW now \in Phases, NEW paused \in BOOLEAN,
         wallet # None, ~loading, page = "market" => view.sides,
         NEW b \in Worthwhile(wallet) \ Buttons(now),
         Accepted(b, wallet, paused)
  PROVE  \/ b.kind = "deposit" /\ depositing
         \/ b.kind = "withdraw" /\ withdrawing
         \/ Before(clock, now) /\ ~chain.resolved
<1> DEFINE mine == own[wallet]
<1>1. view.found /\ view.account = chain /\ view.own = own[wallet]
  BY DEF Fresh
<1>2. /\ chain.resolved \in BOOLEAN /\ chain.winner \in Side \cup {None}
      /\ clock \in Phases
  BY DEF FlagsInv, Typed, Account, ChainFits
<1>3. /\ clock # "over" /\ now = "over" => Before(clock, now)
      /\ clock = "active" /\ now # "active" => Before(clock, now)
  BY <1>2 DEF Before, Phases
<1>4. CASE page = "market"
  <2>1. b \notin MarketButtons(now)
    BY <1>1, <1>4 DEF Buttons
  <2>2. b \in {Button(k, 0, 0) : k \in {"buy", "sell", "sellPost"}}
    BY <1>4 DEF Worthwhile
  <2>3. CASE b = Button("buy", 0, 0)
    <3>1. ~chain.resolved /\ clock # "over"
      BY <2>3 DEF Button, Accepted, BuyAccepted
    <3>2. getMarketPhase(chain, now) = "resolved"
      BY <1>1, <1>4, <2>1, <2>3 DEF MarketButtons, Button
    <3> QED
      BY <1>3, <3>1, <3>2 DEF getMarketPhase, Phases
  <2>4. CASE b = Button("sell", 0, 0)
    <3>1. ~chain.resolved /\ clock # "over" /\ mine.held
      BY <2>4 DEF Button, Accepted, SellAccepted
    <3>2. getMarketPhase(chain, now) = "resolved"
      BY <1>1, <1>4, <2>1, <2>4, <3>1 DEF MarketButtons, Button
    <3> QED
      BY <1>3, <3>1, <3>2 DEF getMarketPhase, Phases
  <2>5. CASE b = Button("sellPost", 0, 0)
    <3>1. chain.resolved /\ mine.held
      BY <2>5 DEF Button, Accepted, SellPostAccepted
    <3>2. getMarketPhase(chain, now) = "resolved"
      BY <3>1 DEF getMarketPhase
    <3>3. b \in MarketButtons(now)
      BY <1>1, <1>4, <2>5, <3>1, <3>2 DEF MarketButtons, Button
    <3> QED
      BY <2>1, <3>3
  <2> QED
    BY <2>2, <2>3, <2>4, <2>5
<1>5. CASE page # "market"
  <2>1. b \notin DepositButtons(now) /\ b \notin WithdrawButtons(now)
    BY <1>1, <1>5 DEF Buttons, CompareButtons
  <2>2. CASE \E s \in Side : b = Button("deposit", s, s)
    <3>1. ~chain.resolved /\ clock = "active" /\ mine.side = None
      BY <2>2 DEF Button, Accepted, DepositAccepted
    <3>2. ~canDeposit(now) \/ depositing
      BY <2>1, <2>2 DEF DepositButtons
    <3>3. now = "active" => getComparePhase(chain, now) = "active"
      BY <3>1 DEF getComparePhase
    <3>4. now # "active" \/ depositing
      BY <1>1, <3>1, <3>2, <3>3 DEF canDeposit
    <3> QED
      BY <1>3, <2>2, <3>1, <3>4 DEF Button
  <2>3. CASE \E s \in {s \in Side : own[wallet].side = s
                                  /\ chain.winner \in {None, s}} :
               b = Button("withdraw", s, s)
    <3>1. PICK s \in Side : /\ b = Button("withdraw", s, s) /\ mine.side = s
                            /\ chain.winner \in {None, s}
      BY <2>3
    <3>2. chain.resolved /\ mine.side # None /\ ~mine.withdrawn
      BY <3>1 DEF Button, Accepted, WithdrawAccepted
    <3>3. getComparePhase(chain, now) = "resolved"
      BY <3>2 DEF getComparePhase
    <3>4. canWithdraw(now)
      BY <1>1, <3>1, <3>2, <3>3 DEF canWithdraw
    <3>5. b = Button("withdraw", view.own.side,
                     IF view.account.winner # None THEN view.account.winner
                     ELSE view.own.side)
      BY <1>1, <3>1
    <3>6. withdrawing
      BY <2>1, <3>4, <3>5 DEF WithdrawButtons
    <3> QED
      BY <3>1, <3>6 DEF Button
  <2> QED
    BY <1>5, <2>2, <2>3 DEF Worthwhile
<1> QED
  BY <1>4, <1>5

(* On a page that shows what is on chain, whatever its own clock and the   *)
(* pause flag, the enabled buttons are exactly the ones the program accepts*)
(* and the dead ones, and what a wallet gains by is offered to it unless   *)
(* one of the kind is pending or the page's clock is ahead of a resolution *)
(* still to come (duels/[id]/page.tsx:457, 1086; compare/[id]/page.tsx:    *)
(* 214-215, 392-397).                                                      *)
THEOREM WebButtonsWork == Spec => []ButtonsWork
<1>1. FlagsInv /\ ChainFits => ButtonsWork
  BY EnabledButtons, OfferedButtons DEF ButtonsWork
<1>2. Init => ChainFits
  BY DEF Init, ChainFits, Phases
<1>3. ChainFits /\ [Next]_vars => ChainFits'
  <2> SUFFICES ASSUME ChainFits, [Next]_vars PROVE ChainFits'
    OBVIOUS
  <2>1. CASE Pass
    BY <2>1 DEF ChainFits, Phases, Pass
  <2>2. CASE Resolve
    BY <2>2 DEF ChainFits, Resolve
  <2>3. CASE UNCHANGED <<clock, chain>>
    BY <2>3 DEF ChainFits
  <2>4. CASE SwitchWallet \/ UNCHANGED vars
    BY <2>3, <2>4 DEF SwitchWallet, vars, chainVars
  <2>5. ASSUME NEW r \in Requests, Poll(r) \/ FetchStep(r) \/ FetchFails(r)
        PROVE  UNCHANGED <<clock, chain>>
    BY <2>5 DEF Poll, FetchStep, Answer, FetchAccount, FetchSides, FetchOwn,
                FetchFails, chainVars
  <2>6. ASSUME NEW h \in Clicks,
               \/ Click(h) \/ Land(h) \/ Confirm(h) \/ Reload(h)
               \/ Refused(h) \/ TimesOut(h)
        PROVE  UNCHANGED <<clock, chain>>
    BY <2>6 DEF Click, Land, Confirm, Reload, Refused, TimesOut, chainVars
  <2> QED
    BY <2>1, <2>2, <2>3, <2>4, <2>5, <2>6 DEF Next
<1> QED
  BY <1>1, <1>2, <1>3, FlagsInit, FlagsKept, PTL DEF Spec
=============================================================================
