---------------------------- MODULE MCHttpClient ----------------------------
(***************************************************************************)
(* Instances of HttpClient for TLC: URLs that share a connection, URLs     *)
(* that must not, and a unix URL with two places to split it at.           *)
(***************************************************************************)
EXTENDS HttpClient, TLC

URL(proto, host, port) == [proto |-> proto, host |-> host, port |-> port]

MCUrls == {URL("http", "h", NoPort), URL("http", "h", 80), URL("http", "h", 8080),
           URL("https", "h", NoPort), URL("unix", "/run/k.sock/v1", NoPort)}
\* A URL without a port and one with the port of its key.
HttpsUrls == {URL("https", "h", NoPort), URL("https", "h", 80)}

MCSockets == "/run/k.sock/v1" :> {"/run/k.sock", "/run"}
=============================================================================
