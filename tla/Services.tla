-------------------------------- MODULE Services --------------------------------
(***************************************************************************)
(* The services around the ledger in one server: whichever of them acts,   *)
(* the others keep their tables, timers and requests.  They meet only in   *)
(* the database and in Redis, where each has keys of its own.              *)
(***************************************************************************)
EXTENDS EventPipeline, FiatDeposit, Kyc, Sessions, TwoFactor, MarketData,
        DepositAddresses, RateLimiters

servicesVars == <<pipelineVars, fiatVars, kycVars, sessionVars, twoFaVars, marketVars,
                  addressVars, limiterVars>>

ServicesInit == /\ PipelineInit /\ FiatInit /\ KycInit /\ SessionInit /\ TwoFaInit
                /\ MarketInit /\ AddressInit /\ LimiterInit

\* The event loop runs one callback of one service at a time.
ServicesNext ==
    \/ /\ PipelineNext
       /\ UNCHANGED <<fiatVars, kycVars, sessionVars, twoFaVars, marketVars, addressVars,
                      limiterVars>>
    \/ /\ FiatNext
       /\ UNCHANGED <<pipelineVars, kycVars, sessionVars, twoFaVars, marketVars, addressVars,
                      limiterVars>>
    \/ /\ KycNext
       /\ UNCHANGED <<pipelineVars, fiatVars, sessionVars, twoFaVars, marketVars, addressVars,
                      limiterVars>>
    \/ /\ SessionNext
       /\ UNCHANGED <<pipelineVars, fiatVars, kycVars, twoFaVars, marketVars, addressVars,
                      limiterVars>>
    \/ /\ TwoFaNext
       /\ UNCHANGED <<pipelineVars, fiatVars, kycVars, sessionVars, marketVars, addressVars,
                      limiterVars>>
    \/ /\ MarketNext
       /\ UNCHANGED <<pipelineVars, fiatVars, kycVars, sessionVars, twoFaVars, addressVars,
                      limiterVars>>
    \/ /\ AddressNext
       /\ UNCHANGED <<pipelineVars, fiatVars, kycVars, sessionVars, twoFaVars, marketVars,
                      limiterVars>>
    \/ /\ LimiterNext
       /\ UNCHANGED <<pipelineVars, fiatVars, kycVars, sessionVars, twoFaVars, marketVars,
                      addressVars>>

ServicesSpec == ServicesInit /\ [][ServicesNext]_servicesVars
-------------------------------------------------------------------------------
(* Every table of every service keeps its type, whichever service acts     *)
(* (prisma/schema.prisma, the rows and Redis keys the services write).     *)
ServicesTypeOK ==
    /\ OutboxTypeOK /\ CandleTypeOK /\ FiatTypeOK /\ KycTypeOK /\ SessionTypeOK
    /\ TwoFaTypeOK /\ MarketTypeOK /\ AddressTypeOK /\ LimiterTypeOK
===============================================================================
