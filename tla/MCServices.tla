----------------------------- MODULE MCServices -----------------------------
(***************************************************************************)
(* The services beside the queue, in one run: prices and fees, the WAL     *)
(* top-up, the rate limiter and the canary.  They share no state, so a     *)
(* behaviour exercises one of them and the others keep their initial state. *)
(***************************************************************************)
EXTENDS MCQuotes, WalTopUp, RateLimit, Canary

VARIABLE service

servicesVars == <<service, vars, walVars, limitVars, canaryVars>>

ServicesInit ==
    /\ service \in {"quotes", "topUp", "limiter", "canary"}
    /\ Init /\ (service # "quotes" => half = "prices")
    /\ WalInit /\ (service # "topUp" => swapSupported)
    /\ LimitInit
    /\ CanaryInit

ServicesNext ==
    /\ UNCHANGED service
    /\ \/ service = "quotes" /\ Next /\ UNCHANGED <<walVars, limitVars, canaryVars>>
       \/ service = "topUp" /\ WalNext /\ UNCHANGED <<vars, limitVars, canaryVars>>
       \/ service = "limiter" /\ LimitNext /\ UNCHANGED <<vars, walVars, canaryVars>>
       \/ service = "canary" /\ CanaryNext /\ UNCHANGED <<vars, walVars, limitVars>>

\* EVM's timer fires, and its round trip goes on when an await of it is answered; that it
\* is answered is not assumed, and of Solana nothing is.
EvmProbing == service = "canary" /\ Probing("evm") /\ UNCHANGED <<service, vars, walVars, limitVars>>

ServicesSpec == ServicesInit /\ [][ServicesNext]_servicesVars /\ WF_servicesVars(EvmProbing)
=============================================================================
