---------------------------- MODULE Configuration ----------------------------
(***************************************************************************)
(* The part of config.Config that decides what teller runs, and Validate.  *)
(* A setting that may be missing or out of range is a flag: it is usable.  *)
(*                                                                         *)
(* `teller.Run` and `HTTPServer.Run` act on this record without looking at *)
(* it again: whatever Validate lets pass is what they start.               *)
(***************************************************************************)

(* config.Web: which of the five settings are set.                          *)
WebSettings == {"http_addr", "https_addr", "auto_tls_host", "tls_cert", "tls_key"}

(* config.Config.  "bad" names the settings that are missing, out of range, *)
(* or name a file or an address that is not there.                          *)
Settings ==
    {"btc_addresses", "sky_addresses", "sky_rpc", "btc_rpc",
     "confirmations_required", "initial_scan_height", "max_decimals"}

Config == [dummyScanner : BOOLEAN, dummySender : BOOLEAN, btc : BOOLEAN, sky : BOOLEAN,
           sendEnabled : BOOLEAN, web : SUBSET WebSettings, bad : SUBSET Settings]

-----------------------------------------------------------------------------
(* Mutant: the check that https has a certificate is dropped.               *)
WebValidate_NoCert(web) ==
    /\ web \cap {"http_addr", "https_addr"} # {}
    /\ "tls_cert" \in web <=> "tls_key" \in web
    /\ "auto_tls_host" \in web => web \cap {"tls_cert", "tls_key"} = {}
    /\ "https_addr" \notin web => web \cap {"auto_tls_host", "tls_cert", "tls_key"} = {}

(* Web.Validate                                                             *)
WebValidate(web) ==
    /\ web \cap {"http_addr", "https_addr"} # {}
    /\ "https_addr" \in web /\ "auto_tls_host" \notin web =>
           {"tls_cert", "tls_key"} \subseteq web
    /\ "tls_cert" \in web <=> "tls_key" \in web
    /\ "auto_tls_host" \in web => web \cap {"tls_cert", "tls_key"} = {}
    /\ "https_addr" \notin web => web \cap {"auto_tls_host", "tls_cert", "tls_key"} = {}

(* Config.Validate: sky_rpc is asked for by the sender, and not by the SKY  *)
(* scanner; btc_rpc only by a real and enabled BTC scanner.                 *)
Validate(cfg) ==
    /\ {"btc_addresses", "sky_addresses"} \cap cfg.bad = {}
    /\ ~cfg.dummySender => "sky_rpc" \notin cfg.bad
    /\ ~cfg.dummyScanner /\ cfg.btc => "btc_rpc" \notin cfg.bad
    /\ {"confirmations_required", "initial_scan_height", "max_decimals"} \cap cfg.bad = {}
    /\ WebValidate(cfg.web)

(* What setDefaults leaves of an empty file.  The name of the setting for   *)
(* sending is misspelt there, so that it stays off; there is no default for *)
(* the address files, nor for the user of btcd.                             *)
DefaultConfig ==
    [dummyScanner |-> FALSE, dummySender |-> FALSE, btc |-> TRUE, sky |-> TRUE,
     sendEnabled |-> FALSE, web |-> {"http_addr"},
     bad |-> {"btc_addresses", "sky_addresses", "btc_rpc"}]

(* Load: the file fills in what it sets.                                    *)
Load(fill) == [DefaultConfig EXCEPT !.bad = @ \ fill]

-----------------------------------------------------------------------------
(* HTTPServer.Run: what it listens on, where the certificate comes from,    *)
(* and which setting names the host that all requests over http are         *)
(* redirected to, if any does.                                              *)
Listeners(web) == web \cap {"http_addr", "https_addr"}

CertFrom(web) ==
    IF "auto_tls_host" \in web THEN {"acme"}
    ELSE {f \in {"tls_cert", "tls_key"} : f \in web}

SslHost(web) ==
    web \cap (IF "auto_tls_host" \in web THEN {"auto_tls_host"} ELSE {"https_addr"})

(* The server can serve: it listens on something, if that is https it has a *)
(* certificate, from the ACME client or from both files, and it redirects   *)
(* to https only where it listens for it.                                   *)
Servable(web) ==
    /\ Listeners(web) # {}
    /\ SslHost(web) # {} => "https_addr" \in Listeners(web)
    /\ "https_addr" \in web => CertFrom(web) \in {{"acme"}, {"tls_cert", "tls_key"}}
=============================================================================
