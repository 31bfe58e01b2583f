---------------------------- MODULE MCDeployment ----------------------------
(***************************************************************************)
(* Instance of Deployment for TLC.  An address is a pair, so that those of *)
(* accounts, proxies and contracts can be compared.                        *)
(***************************************************************************)
EXTENDS Deployment

MCKeys == {"MARKET_CONTROLLER", "DISTRIBUTOR", "ORACLE", "RDS", "DOL", "COUNCIL", "DEMOCRACY"}
MCAdmin == <<"admin", 0>>
MCNone == <<"zero", 0>>
MCProxyOf == [k \in MCKeys |-> <<"proxy of", k>>]
MCAddresses == (MCKeys \X (0 .. MaxFailures + 1)) \cup {MCAdmin}
               \cup {MCProxyOf[k] : k \in MCKeys}
MCLpTokens == <<"HT_DOL", "HT_RDS", "HUSD_DOL", "HUSD_RDS">>
MCCandidates == [k \in MCKeys |-> {}]
=============================================================================
