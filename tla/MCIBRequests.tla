---------------------------- MODULE MCIBRequests ----------------------------
(* Small instances of IBRequests: the RPC thread lists the option chain of May, *)
(* places a spread order for June, whose strikes are the same, and asks for a   *)
(* quote, while init_ib and main_loop run.                                      *)
EXTENDS IBRequests, TLC

CONSTANTS legs, chain, quotes, account, poll,
          rpc, init, main,
          May, June, Spy, Summary, PnL, Executions,
          call, put, last, mayCall, mayPut, juneCall, junePut, spy

AllThreads == legs :> rpc @@ chain :> rpc @@ quotes :> rpc
                  @@ account :> init @@ poll :> main
AllKinds == legs :> "legs" @@ chain :> "chain" @@ quotes :> "ticks"
                @@ account :> "init" @@ poll :> "poll"
AllAsks == legs :> <<June>> @@ chain :> <<May>> @@ quotes :> <<Spy>>
               @@ account :> <<Summary, PnL>> @@ poll :> <<Executions>>
ThreadsOfCalls == [c \in Calls |-> AllThreads[c]]
Kinds == [c \in Calls |-> AllKinds[c]]
Asked == [c \in Calls |-> AllAsks[c]]
LegsOf == [c \in Calls |-> IF c = legs THEN {call, put} ELSE {}]

Types == May :> "CONTRACT_DETAIL" @@ June :> "CONTRACT_DETAIL"
            @@ Spy :> "MARKET_DATA" @@ Summary :> "ACCOUNT_SUMMARY"
            @@ PnL :> "PNL" @@ Executions :> "EXECUTION_DETAILS"
Said == May :> {mayCall, mayPut} @@ June :> {juneCall, junePut} @@ Spy :> {spy}
           @@ Summary :> {} @@ PnL :> {} @@ Executions :> {}
StrikesOfAnswers == mayCall :> call @@ mayPut :> put @@ juneCall :> call
                        @@ junePut :> put @@ spy :> last
First == [MARKET_DATA |-> 1, CONTRACT_DETAIL |-> 2, ACCOUNT_SUMMARY |-> 4,
          EXECUTION_DETAILS |-> 5, PNL |-> 6]
\* Bound: the RPC thread lists the chain, then places the order, then asks for
\* the quote, once init_ib is through.
InOrder == /\ pc[chain] \in Done \/ pc[legs] = "idle"
           /\ (pc[legs] \in Done /\ pc[account] \in Done) \/ pc[quotes] = "idle"

Once == [e \in Events |-> 1]
Never == [e \in Events |-> 0]
=============================================================================
