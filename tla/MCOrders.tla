------------------------------- MODULE MCOrders --------------------------------
(* An order's way to the backend and in it, for TLC.  The parts share no    *)
(* state: a behaviour is the request for an order's parameters, the form it *)
(* is signed in, its life in the book, or the life of its stakes in their   *)
(* table.  In the book a request to cancel is under way only while nothing  *)
(* has failed.                                                              *)
EXTENDS MCOrderBook, OrderSuggestion, RegistrationIndex, SwapForm

FourMinimums == <<1000, 3000, 5000, 10000>>

Quoting == {[strategy |-> "whale", balance |-> 8,  bids |-> << >>],
            [strategy |-> "whale", balance |-> 24, bids |-> << >>],
            [strategy |-> "whale", balance |-> 60, bids |-> << >>],
            [strategy |-> "cow",   balance |-> 16,
             bids |-> <<[price |-> 15, size |-> 2], [price |-> 12, size |-> 9]>>]}

Asked == [rate : {7, 10, 21}, inputAmount : {5, 20, 40}, deadlineBlocks : {1, 3, 10},
          premiumBps : {0, 200, 5000}, slippageBps : {0, 1000, 5000},
          targetBps : {2000, 5000, 9000}]

NoRequest == [rate |-> 0, inputAmount |-> 1, deadlineBlocks |-> 1,
              premiumBps |-> 0, slippageBps |-> 0, targetBps |-> 0]

AskedOrNot == Asked \cup {NoRequest}

VARIABLE life

OrdersInit ==
  /\ life \in {"requested", "signed", "booked", "staked"}
  /\ BookInit /\ SuggestionInit /\ IndexerInit /\ FormInit
  /\ life = "requested" <=> request # NoRequest
  /\ life # "signed" => inKey = "WETH" /\ approvals = [k \in Tokens |-> 0]

OrdersNext ==
  \/ /\ life = "requested" /\ SuggestionNext
     /\ UNCHANGED <<bookVars, indexerVars, formVars, life>>
  \/ /\ life = "signed" /\ FormNext
     /\ UNCHANGED <<bookVars, suggestionVars, indexerVars, life>>
  \/ /\ life = "booked" /\ BookNext /\ (cancelling' # {} => faults' = 0)
     /\ UNCHANGED <<suggestionVars, indexerVars, formVars, life>>
  \/ /\ life = "staked" /\ IndexerNext
     /\ UNCHANGED <<bookVars, suggestionVars, formVars, life>>

OrdersSpec ==
  OrdersInit /\ [][OrdersNext]_<<bookVars, suggestionVars, indexerVars, formVars, life>>
=============================================================================
