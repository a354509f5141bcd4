-------------------------------- MODULE Tunnels --------------------------------
(***************************************************************************)
(* A connection from one container to another.  The application connects   *)
(* to a proxy of its own container (container/proxy.go), the proxy to the  *)
(* multiplexer of the other host (proxy/mux.go), the multiplexer to the    *)
(* service; or the proxy goes to the service directly when both containers *)
(* are on one host.  Each of the three connections has two ends, and what  *)
(* is closed at one end is noticed at the other.                           *)
(***************************************************************************)
EXTENDS Naturals

VARIABLES ends,    \* of each end of a connection: whether it is open
          prxyPc,  \* proxy.prxy
          muxPc,   \* muxConnection and ProxyLoop
          header,  \* what the proxy has sent ahead
          copying, \* the goroutines that still copy
          direct,  \* both containers are on one host
          tunLeft  \* prxy has returned without closing the application's connection
tunVars == <<ends, prxyPc, muxPc, header, copying, direct, tunLeft>>

\* The ends, in order: the application, its proxy on either side, the mux on either side and
\* the service.  With a direct connection the proxy talks to the service.
Ends == {"app", "local", "remote", "conn", "svc", "back"}
Peer(e) ==
    CASE e = "app" -> "local" [] e = "local" -> "app"
      [] e = "remote" -> IF direct THEN "back" ELSE "conn"
      [] e = "conn" -> "remote" [] e = "svc" -> "back"
      [] e = "back" -> IF direct THEN "remote" ELSE "svc"
Open(es) == ends' = [e \in Ends |-> e \in es \/ ends[e]]
Closed(es) == ends' = [e \in Ends |-> e \notin es /\ ends[e]]

\* Nothing can be read at an end any more.
AtEnd(e) == ~ends[e] \/ ~ends[Peer(e)]

tunInit ==
    /\ ends = [e \in Ends |-> FALSE] /\ prxyPc = "listens" /\ muxPc = "listens"
    /\ header = "none" /\ copying = {} /\ direct \in BOOLEAN /\ tunLeft = FALSE

-----------------------------------------------------------------------------
\* listenAndproxy: without an address the connection is closed at once.
ProxyAccepts ==
    /\ prxyPc = "listens"
    /\ \/ Open({"app", "local"}) /\ prxyPc' = "begins"
       \/ Open({"app"}) /\ prxyPc' = "ended"
    /\ UNCHANGED <<muxPc, header, copying, direct, tunLeft>>

\* prxy: without a token in time, or when nobody answers, it returns and local stays open.
PrxyReturns ==
    /\ prxyPc' = "ended" /\ tunLeft' = TRUE
    /\ UNCHANGED <<ends, header, copying>>
WaitToken ==
    /\ prxyPc = "begins" /\ ~direct
    /\ \/ prxyPc' = "dials" /\ UNCHANGED <<ends, header, copying, tunLeft>>
       \/ PrxyReturns
    /\ UNCHANGED <<muxPc, direct>>
DialMux ==
    /\ prxyPc = "dials"
    /\ \/ Open({"remote", "conn"}) /\ prxyPc' = "signs" /\ UNCHANGED <<header, copying, tunLeft>>
       \/ PrxyReturns
    /\ UNCHANGED <<muxPc, direct>>
DialDirect ==
    /\ prxyPc = "begins" /\ direct
    /\ \/ /\ Open({"remote", "back"}) /\ prxyPc' = "copies"
          /\ copying' = copying \cup {"down", "up"} /\ UNCHANGED <<header, tunLeft>>
       \/ PrxyReturns
    /\ UNCHANGED <<muxPc, direct>>

\* AddSignedMuxHeader: nobody looks at its error, and the copying starts all the same.
AddSignedMuxHeader ==
    /\ prxyPc = "signs" /\ prxyPc' = "copies"
    /\ header' \in {"good", "bad", "none"} /\ copying' = copying \cup {"down", "up"}
    /\ UNCHANGED <<ends, muxPc, direct, tunLeft>>

\* The two goroutines of prxy: each closes both connections when its copying is over.
CopyOne(way, from) ==
    /\ way \in copying /\ AtEnd(from)
    /\ copying' = copying \ {way} /\ Closed({"local", "remote"})
    /\ UNCHANGED <<prxyPc, muxPc, header, direct, tunLeft>>
PrxyCopies == CopyOne("down", "remote") \/ CopyOne("up", "local")

-----------------------------------------------------------------------------
\* muxConnection: the header has to come within five seconds and be in order.
ReadMuxHeader ==
    /\ muxPc = "listens" /\ ends["conn"]
    /\ \/ header = "good" /\ muxPc' = "dials" /\ UNCHANGED ends
       \/ muxPc' = "ended" /\ Closed({"conn"})
    /\ UNCHANGED <<prxyPc, header, copying, direct, tunLeft>>
DialService ==
    /\ muxPc = "dials"
    /\ \/ Open({"svc", "back"}) /\ muxPc' = "loops" /\ copying' = copying \cup {"in", "out"}
       \/ Closed({"conn"}) /\ muxPc' = "ended" /\ UNCHANGED copying
    /\ UNCHANGED <<prxyPc, header, direct, tunLeft>>

\* ProxyLoop, the brokers: each closes the end that it writes to.
Broker(way, from, to) ==
    /\ way \in copying /\ AtEnd(from)
    /\ copying' = copying \ {way} /\ Closed({to})
    /\ UNCHANGED <<prxyPc, muxPc, header, direct, tunLeft>>
MuxCopies == Broker("in", "conn", "svc") \/ Broker("out", "svc", "conn")

ProxyLoopEnds ==
    /\ muxPc = "loops" /\ {"in", "out"} \cap copying = {}
    /\ muxPc' = "ended" /\ Closed({"conn", "svc"})
    /\ UNCHANGED <<prxyPc, header, copying, direct, tunLeft>>

\* The application or the service hangs up.
HangUp ==
    /\ \E e \in {"app", "back"} : ends[e] /\ Closed({e})
    /\ UNCHANGED <<prxyPc, muxPc, header, copying, direct, tunLeft>>

PrxyStep == WaitToken \/ DialMux \/ DialDirect \/ AddSignedMuxHeader \/ PrxyCopies
MuxStep == ReadMuxHeader \/ DialService \/ MuxCopies \/ ProxyLoopEnds
tunNext == ProxyAccepts \/ PrxyStep \/ MuxStep \/ HangUp
tunSpec == tunInit /\ [][tunNext]_tunVars

-----------------------------------------------------------------------------
\* When the application or the service has hung up, the whole tunnel goes: no end stays open,
\* neither in the proxy nor in the multiplexer.  Only a proxy that could not get through leaves
\* the application's connection open (container/proxy.go:249-287), and an application that it
\* has not answered keeps its end until it gives up.
TunnelsClose ==
    (prxyPc # "listens" /\ (~ends["app"] \/ (prxyPc = "copies" /\ AtEnd("remote"))))
       ~> \A e \in Ends \ {"app", "back"} : ends[e] => tunLeft /\ e = "local"
=============================================================================
