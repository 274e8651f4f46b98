----------------------------- MODULE RouteQuotes -----------------------------
(***************************************************************************)
(* What a route promises and what the transfer it initiates delivers: the  *)
(* validate(), quote() and initiate() of the token bridge, executor, CCTP, *)
(* automatic CCTP and tBTC routes. Between the calls, and between the two  *)
(* lookups of one call, the relayer's fee and the limit on the gas it      *)
(* drops off may move; a quote may be asked for again.                     *)
(***************************************************************************)
EXTENDS Amounts

CONSTANTS Routes,       \* the routes an application may take
          MaxDecimals,  \* TokenTransfer.MAX_DECIMALS, what the bridge carries
          Decimals,     \* decimals a token may have where it comes from
          Texts,        \* amounts an application may ask for
          GasShares,    \* options.nativeGas, in hundredths of a percent
          RelayerFees,  \* what the relayer of automatic CCTP may charge
          Limits,       \* maxSwapAmount() or gasDropOffLimit
          DeciBps,      \* what the callback getFee takes for the referrer
          NativeFees,   \* and what it takes of the source chain's own token
          Costs,        \* estimatedCost of the executor, in that token
          MessageFee    \* and the fee of Wormhole's core contract

EveryRoute == {"TokenBridge", "ExecutorTokenBridge", "CCTP", "AutomaticCCTP", "TBTC"}

(* The routes are among those modelled. *)
RoutesAssumption == Routes \subseteq EveryRoute
ASSUME RoutesAssumption

(* Tokens have some number of decimals; limits and fees are numbers of base units. *)
UnitsAssumption ==
    /\ MaxDecimals \in Nat /\ MessageFee \in Nat
    /\ \A n \in Decimals \union Limits \union DeciBps \union NativeFees \union Costs : n \in Nat
ASSUME UnitsAssumption

(* An amount to parse is digits before and after a point. *)
TextsAssumption == \A t \in Texts : t.whole \in Seq(0 .. 9) /\ t.partial \in Seq(0 .. 9)
ASSUME TextsAssumption

(* The gas to drop off is a share of what may be dropped off. *)
SharesAssumption == \A share \in GasShares : share \in 0 .. 10000
ASSUME SharesAssumption

(* The 5% that validate() adds to the fee come to at least one base unit. *)
FeesAssumption == \A fee \in RelayerFees : fee \in Nat /\ 5 * fee >= 100
ASSUME FeesAssumption

VARIABLES route, source, destination,  \* the request: route and decimals of the tokens
          native,                      \* the token sent is its chain's own, as ETH is
          text, gasShare,              \* the amount and the option of the application
          relayerFee, limit,           \* what the chains and the executor say now
          phase,                       \* the call that was last made, or why it failed
          params,                      \* params.normalizedParams
          quote,                       \* the quote, with its details
          dropOff,                     \* the gas to drop off, in a call of quote()
          paid,                        \* what the transfer took from the sender
          received                     \* and what the recipient got

request == <<route, source, destination, native, text, gasShare>>
world   == <<relayerFee, limit>>
vars    == <<request, world, phase, params, quote, dropOff, paid, received>>

IsCCTP == route \in {"CCTP", "AutomaticCCTP"}

(* A wrapped token has the decimals of its origin or, if these are more,   *)
(* those the bridge carries; USDC has the same number of them everywhere.  *)
Wrapped(d) == {d, Min({d, MaxDecimals})}

NoParams == [amount |-> FromBaseUnits(0, 0), fee |-> 0, gas |-> 0]
NoQuote  == [source |-> 0, destination |-> 0, decimals |-> 0, fee |-> 0, gas |-> 0,
             refers |-> FALSE, referrer |-> 0, nativeFee |-> 0, cost |-> 0]

Init == /\ route \in Routes
        /\ source \in UNION {Wrapped(d) : d \in Decimals}
        /\ destination \in UNION {Wrapped(d) : d \in Decimals}
        /\ \/ IsCCTP /\ source = destination
           \/ ~ IsCCTP /\ \E d \in Decimals : {source, destination} \subseteq Wrapped(d)
        /\ native \in IF route \in {"TokenBridge", "ExecutorTokenBridge"} THEN BOOLEAN ELSE {FALSE}
        /\ text \in Texts
        /\ gasShare \in IF route \in {"ExecutorTokenBridge", "AutomaticCCTP"}
                        THEN GasShares ELSE {0}
        /\ relayerFee \in RelayerFees /\ limit \in Limits
        /\ phase = "asked"
        /\ params = NoParams /\ quote = NoQuote
        /\ dropOff = 0 /\ paid = 0 /\ received = 0

Fails(why) == phase' = why /\ UNCHANGED <<request, world, params, quote, dropOff, paid, received>>
-----------------------------------------------------------------------------
(* validate() *)

amt == Parse(text, source)

Accept(fee, gas) ==
    /\ phase' = "validated"
    /\ params' = [amount |-> amt, fee |-> fee, gas |-> gas]
    /\ UNCHANGED <<request, world, quote, dropOff, paid, received>>

CannotParse == phase = "asked" /\ ~ Parses(text, source) /\ Fails("unparsed")

Validate == /\ phase = "asked" /\ route # "AutomaticCCTP"
            /\ Parses(text, source)
            /\ Accept(0, 0)

MinAmount == (relayerFee * 105) \div 100

(* Mutant: all that can be redeemed may be swapped. *)
SwapsEverything == (Min({limit, Units(amt) - relayerFee}) * gasShare) \div 10000

(* The gas to swap for native tokens. The transfer would revert if it left *)
(* nothing. The fee and the limit are two lookups, but of two things: what *)
(* happens between them could as well happen before or after both.         *)
NativeGasAmount ==
    LET redeemable == Units(amt) - relayerFee
        gas        == (Min({limit, redeemable}) * gasShare) \div 10000
    IN  IF gas = redeemable /\ gas > 0 THEN gas - 1 ELSE gas

NormalizeTransferParams ==
    /\ phase = "asked" /\ route = "AutomaticCCTP"
    /\ Parses(text, source)
    /\ Units(amt) >= MinAmount
    /\ Accept(relayerFee, NativeGasAmount)

TooLittle == /\ phase = "asked" /\ route = "AutomaticCCTP"
             /\ Parses(text, source)
             /\ Units(amt) < MinAmount
             /\ Fails("too little")
-----------------------------------------------------------------------------
(* quote(), which may be called again with the same params *)

Asks == phase \in {"validated", "quoted"}

Answer(q) == /\ phase' = "quoted"
             /\ quote' = q
             /\ UNCHANGED <<request, world, params, dropOff, paid, received>>

(* CircleTransfer.quoteTransfer(): the fee is looked up again. *)
QuoteCircle ==
    /\ Asks /\ IsCCTP
    /\ LET fee == IF route = "AutomaticCCTP" THEN relayerFee ELSE 0
       IN  Answer([NoQuote EXCEPT !.source = Units(params.amount),
                                  !.destination = Units(params.amount) - params.gas - fee,
                                  !.decimals = destination,
                                  !.fee = fee, !.gas = params.gas])

(* The tBTC route promises the amount as it was asked for. *)
QuoteTbtc == /\ Asks /\ route = "TBTC"
             /\ Answer([NoQuote EXCEPT !.source = Units(params.amount),
                                       !.destination = Units(params.amount),
                                       !.decimals = source])

(* TokenTransfer.quoteTransfer() *)
SrcAmountTruncated == Truncate(params.amount, MaxDecimals)

(* Mutant: the referrer gets what was asked for. *)
FullFee(dBps) == Units(GetDeciBps(SrcAmountTruncated, dBps))

(* The referrer's fee is cut to the decimals of the bridge too. *)
TruncatedFee(dBps) ==
    Units(Truncate(GetDeciBps(SrcAmountTruncated, dBps), MaxDecimals))

Remaining(referrer) == FromBaseUnits(Units(SrcAmountTruncated) - referrer, source)

(* q has what the executor and the referrer charge. *)
QuoteTransfer(q) ==
    IF Scales(SrcAmountTruncated, destination) /\ Scales(Remaining(q.referrer), destination)
    THEN Answer([q EXCEPT !.source = Units(SrcAmountTruncated),
                          !.destination = Units(Scale(Remaining(q.referrer), destination)),
                          !.decimals = destination])
    ELSE Fails("unscaled")

QuoteManual == Asks /\ route = "TokenBridge" /\ QuoteTransfer(NoQuote)

(* The executor route looks the limit up for the share of it, ... *)
QuoteExecutor == /\ Asks /\ route = "ExecutorTokenBridge"
                 /\ dropOff' = (((gasShare + 50) \div 100) * limit) \div 100
                 /\ phase' = "quoting"
                 /\ UNCHANGED <<request, world, params, quote, paid, received>>

(* ... and getExecutorQuote() looks it up again, to check the gas. *)
GetExecutorQuote ==
    /\ phase = "quoting"
    /\ IF dropOff > limit THEN Fails("over the limit")
       ELSE \E dBps \in DeciBps, nativeFee \in NativeFees, cost \in Costs :
              LET referrer == TruncatedFee(dBps)
                  refers   == \/ GetDeciBps(SrcAmountTruncated, dBps).amount # <<0>>
                              \/ nativeFee > 0
              IN  IF refers /\ Units(SrcAmountTruncated) <= referrer
                  THEN Fails("nothing remains")
                  ELSE QuoteTransfer([NoQuote EXCEPT !.gas = dropOff, !.refers = refers,
                                                     !.referrer = referrer,
                                                     !.nativeFee = nativeFee, !.cost = cost])
-----------------------------------------------------------------------------
(* initiate(), and what the contracts make of it *)

(* Mutant: the referrer's fee comes on top. *)
GrossAmount == Units(params.amount)

(* The amount the route hands to the contract. *)
BridgedAmount == IF route = "ExecutorTokenBridge" /\ quote.refers
                 THEN Units(SrcAmountTruncated) - quote.referrer
                 ELSE Units(params.amount)

(* The bridge leaves the sender what it cannot carry. *)
Carried(n) == IF IsCCTP THEN n ELSE Units(Truncate(FromBaseUnits(n, source), MaxDecimals))

(* Who sends the chain's own token pays with it what is charged in it: the *)
(* cost of the executor, the referrer's native fee, the fee of the message.*)
OnTop == IF native THEN MessageFee + quote.cost + quote.nativeFee ELSE 0

(* A relayer that would keep all of it is refused by the contract. *)
Reverts == /\ route = "AutomaticCCTP"
           /\ Units(params.amount) <= relayerFee + params.gas

Initiate == /\ phase = "quoted" /\ ~ Reverts
            /\ phase' = "initiated"
            /\ paid' = Carried(BridgedAmount) + quote.referrer + OnTop
            /\ received' = LET kept == IF route = "AutomaticCCTP" THEN relayerFee + params.gas ELSE 0
                           IN  ((Carried(BridgedAmount) - kept) * TenTo[destination]) \div TenTo[source]
            /\ UNCHANGED <<request, world, params, quote, dropOff>>

InitiateReverts == phase = "quoted" /\ Reverts /\ Fails("reverted")

(* What the VAA of the transfer says, and the amount that from() makes of  *)
(* it when the transfer is resumed.                                        *)
WireDecimals == Min({source, MaxDecimals})

VaaAmount == (Carried(BridgedAmount) * TenTo[WireDecimals]) \div TenTo[source]

(* Mutant: a VAA has as many decimals as it can have. *)
ResumesAtMaximum == Units(Scale(FromBaseUnits(VaaAmount, MaxDecimals), source))

ResumedAmount == Units(Scale(FromBaseUnits(VaaAmount, WireDecimals), source))

(* The world moves while the application waits. *)
Waits == phase \in {"asked", "validated", "quoting", "quoted"}

FeeMoves == /\ Waits /\ relayerFee' \in RelayerFees \ {relayerFee}
            /\ UNCHANGED <<request, limit, phase, params, quote, dropOff, paid, received>>

LimitMoves == /\ Waits /\ limit' \in Limits \ {limit}
              /\ UNCHANGED <<request, relayerFee, phase, params, quote, dropOff, paid, received>>

Next == \/ CannotParse \/ Validate \/ NormalizeTransferParams \/ TooLittle
        \/ QuoteCircle \/ QuoteTbtc \/ QuoteManual \/ QuoteExecutor \/ GetExecutorQuote
        \/ Initiate \/ InitiateReverts
        \/ FeeMoves \/ LimitMoves

Spec == Init /\ [][Next]_vars
-----------------------------------------------------------------------------
(* TokenTransfer and CircleTransfer count on these of amount.ts.           *)

(* The amounts this transfer has to do with. *)
Involved == IF phase = "asked" THEN {}
            ELSE {params.amount, SrcAmountTruncated, Remaining(quote.referrer)}

(* scale() multiplies or divides the value without a remainder, and fails  *)
(* where it would have to lose one: what working on the digits comes to.   *)
ScaleIsExact ==
    \A a \in Involved : \A d \in {source, destination} :
       /\ Scales(a, d) <=> (Units(a) * TenTo[d]) % TenTo[a.decimals] = 0
       /\ Scales(a, d) => Scale(a, d) = FromBaseUnits((Units(a) * TenTo[d]) \div TenTo[a.decimals], d)

(* Parsing what display() shows, with more or fewer zeros, gives the amount *)
(* back: an amount may go through an input field.                          *)
DisplayParses ==
    \A a \in Involved : \A precision \in 0 .. source + 1 :
       /\ Parses(Display(a, precision), a.decimals)
       /\ Parse(Display(a, precision), a.decimals) = a

(* "How much of what token will be minted to the receiver": unless the     *)
(* relayer charges something else than when the quote was given, the       *)
(* recipient gets what the quote says. The tBTC route is off by what the   *)
(* bridge cannot carry.                                                    *)
QuoteIsDelivered ==
    phase = "initiated" /\ quote.fee \in {0, relayerFee} =>
        LET promised == quote.destination * TenTo[destination]
            got      == received * TenTo[quote.decimals]
        IN  IF route = "TBTC"
            THEN /\ got <= promised
                 /\ (promised - got) * TenTo[MaxDecimals] < TenTo[source + destination]
            ELSE got = promised

(* The share of the referrer is part of the amount that was asked for, as  *)
(* the quote says. What comes on top, if the token sent is the chain's own,*)
(* is what is charged in that token, which the quote names apart.          *)
PaysWhatIsQuoted ==
    phase = "initiated" => /\ paid <= Units(params.amount) + OnTop
                           /\ route # "TBTC" => paid = quote.source + OnTop

(* A transfer that is resumed from its VAA is for what the sender paid.    *)
ResumeFindsAmount ==
    phase = "initiated" /\ ~ IsCCTP => ResumedAmount = paid - quote.referrer - OnTop

(* No transfer is refused, nor quoted at nothing or less, that was found   *)
(* valid with the fee the relayer still takes; and no quote fails because  *)
(* of the decimals of a token and its wrapped form.                        *)
ValidatedIsAccepted ==
    /\ phase = "reverted" => relayerFee # params.fee
    /\ phase = "quoted" /\ route = "AutomaticCCTP" /\ quote.destination <= 0
         => quote.fee # params.fee
    /\ phase # "unscaled"
=============================================================================
