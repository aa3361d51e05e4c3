---------------------------- MODULE MCMonitoring ----------------------------
(* The figures of the deployment are in the configurations, in ticks of    *)
(* two and a half seconds.                                                 *)
EXTENDS Monitoring
=============================================================================
