----------------------------- MODULE TLSClient -----------------------------
(***************************************************************************)
(* utility::TLSClient (src/utils/net/tls_client/tls_client.cpp): what      *)
(* connect() acquires step by step, gives back when a step fails, and what *)
(* is left to the destructor.                                              *)
(***************************************************************************)
EXTENDS FiniteSets

VARIABLES tls,       \* new, resolved, socket, tcp, ctx, ssl: the last step that
                     \* succeeded; then connected or failed, and destroyed
          members,   \* which of socket_fd, ssl_ctx and ssl are set
          held,      \* what the process holds of the system and the library
          twice      \* history: something was released that was not held

tlsVars == <<tls, members, held, twice>>

TLSInit == tls = "new" /\ members = {} /\ held = {} /\ twice = FALSE

Acquire(r) == held' = held \cup {r} /\ UNCHANGED twice

Release(rs) == held' = held \ rs /\ twice' = (twice \/ ~ rs \subseteq held)

Keep == UNCHANGED <<held, twice>>

-----------------------------------------------------------------------------
(***************************************************************************)
(* connect().                                                              *)
(***************************************************************************)
\* getaddrinfo
Resolve == tls = "new" /\ tls' = "resolved" /\ Acquire("addrinfo") /\ UNCHANGED members

ResolveFails == tls = "new" /\ tls' = "failed" /\ Keep /\ UNCHANGED members

Socket ==
  /\ tls = "resolved"
  /\ tls' = "socket"
  /\ members' = members \cup {"socket_fd"}
  /\ Acquire("socket_fd")

SocketFails ==
  /\ tls = "resolved"
  /\ tls' = "failed"
  /\ Release({"addrinfo"})
  /\ UNCHANGED members

TcpConnect == tls = "socket" /\ tls' = "tcp" /\ Release({"addrinfo"}) /\ UNCHANGED members

\* Mutant of TcpConnectFails: socket_fd is not reset.
TcpConnectFailsKeepsFd ==
  /\ tls = "socket"
  /\ tls' = "failed"
  /\ Release({"socket_fd", "addrinfo"})
  /\ UNCHANGED members

TcpConnectFails ==
  /\ tls = "socket"
  /\ tls' = "failed"
  /\ Release({"socket_fd", "addrinfo"})
  /\ members' = members \ {"socket_fd"}

\* SSL_CTX_new and SSL_new.
CreateSsl ==
  /\ \/ tls = "tcp" /\ tls' = "ctx" /\ members' = members \cup {"ssl_ctx"} /\ Acquire("ssl_ctx")
     \/ tls = "ctx" /\ tls' = "ssl" /\ members' = members \cup {"ssl"} /\ Acquire("ssl")

\* One of them fails, or the handshake: the destructor cleans up.
SslFails == tls \in {"tcp", "ctx", "ssl"} /\ tls' = "failed" /\ Keep /\ UNCHANGED members

\* SSL_connect
TlsHandshake == tls = "ssl" /\ tls' = "connected" /\ Keep /\ UNCHANGED members

TLSConnect ==
  \/ Resolve \/ ResolveFails \/ Socket \/ SocketFails \/ TcpConnect \/ TcpConnectFails
  \/ CreateSsl \/ SslFails \/ TlsHandshake

\* ~TLSClient
TLSDestroy ==
  /\ tls \in {"connected", "failed"}
  /\ tls' = "destroyed"
  /\ Release(members)
  /\ UNCHANGED members

-----------------------------------------------------------------------------
\* Whichever step of connect() fails, what it leaves held is what the
\* destructor will release, and the destructor leaves nothing: no descriptor,
\* address list or TLS object is lost or released twice.
ResourcesReleased ==
  /\ ~ twice
  /\ tls \in {"connected", "failed"} => held = members
  /\ tls = "destroyed" => held = {}
=============================================================================
