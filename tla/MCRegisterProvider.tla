-------------------------- MODULE MCRegisterProvider --------------------------
(* Two versions of one manifest; the second names one secret more.           *)
EXTENDS RegisterProvider

MCNeeds == [v1 |-> {"api_key"}, v2 |-> {"api_key", "webhook_secret"}]
=============================================================================
