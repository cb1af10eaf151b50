----------------------------- MODULE MCLifecycle -----------------------------
(***************************************************************************)
(* Configurations for model checking the process: real scanners and sender *)
(* with a row to confirm, the dummies, mixes of them, and the defaults,    *)
(* bare and filled in; with the dummies every web setting, and every       *)
(* single bad setting.                                                     *)
(***************************************************************************)
EXTENDS Lifecycle

Plain == {"http_addr"}

Choice(ds, dx, b, s, send, web, bad) ==
    [dummyScanner |-> ds, dummySender |-> dx, btc |-> b, sky |-> s,
     sendEnabled |-> send, web |-> web, bad |-> bad]

Run(config, row) == [config |-> config, toConfirm |-> row]

MCConfigs ==
    {Run(Choice(FALSE, FALSE, TRUE, FALSE, TRUE, Plain, {}), TRUE),
     Run(Choice(FALSE, FALSE, FALSE, TRUE, TRUE, Plain, {}), FALSE),
     Run(Choice(TRUE, TRUE, FALSE, TRUE, FALSE, Plain, {}), FALSE),
     Run(Choice(TRUE, TRUE, TRUE, FALSE, TRUE, Plain, {}), TRUE),
     Run(DefaultConfig, FALSE),
     Run(Load({"btc_addresses", "sky_addresses", "btc_rpc"}), FALSE)}
    \cup {Run(Choice(TRUE, TRUE, FALSE, FALSE, FALSE, web, {}), FALSE) :
              web \in SUBSET WebSettings}
    \cup {Run(Choice(dummy, dummy, TRUE, TRUE, FALSE, Plain, {b}), FALSE) :
              dummy \in BOOLEAN, b \in {"sky_addresses", "sky_rpc", "btc_rpc", "max_decimals"}}
=============================================================================
