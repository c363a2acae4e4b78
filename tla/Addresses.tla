----------------------------- MODULE Addresses -----------------------------
(***************************************************************************)
(* SocketAddress, IpAddress and TcpPort: objects with a hidden             *)
(* implementation that are copied, moved, assigned and swapped, built from *)
(* text or from the sockaddr_storage the kernel filled in, and turned back *)
(* into one for ::bind and ::connect.  hosts and endpoints record, beside  *)
(* the objects, what the program that made them means by each; the objects *)
(* are right as long as the kernel is told just that.                      *)
(***************************************************************************)
EXTENDS Integers

CONSTANTS
    IpVars,       \* the places a program has for IpAddress objects
    SockVars,     \* and for SocketAddress objects
    Addrs4,       \* values of an in_addr
    Addrs6,       \* values of an in6_addr
    Localhost4,   \* 127.0.0.1
    Labels,       \* values of IPv6 flow labels and scopes
    Ports,        \* the port numbers a program uses
    NULL,         \* the pointer in an object that was moved from
    NONE          \* no object: not yet constructed, or destroyed

MAX_PORTNB == 65535
PortNumbers == 0..MAX_PORTNB

\* class Ipv4Impl and class Ipv6Impl: what copy() and the storage are made from
Ipv4Impl(addr) == [ipVersion |-> "AF_INET", ipv4Addr |-> addr]
Ipv6Impl(addr, flow, scope) ==
    [ipVersion |-> "AF_INET6", ipv6Addr |-> addr,
     flowInfo |-> flow, scopeId |-> scope]

IpImpls == {Ipv4Impl(a) : a \in Addrs4}
           \cup {Ipv6Impl(a, f, s) : a \in Addrs6, f \in Labels, s \in Labels}

SockAddrImpls ==
    [ipAddr : IpImpls, tcpPort : PortNumbers, addrlen : {16, 28}]

\* What a program means by an address: a host, and a host with a port.
V4Host(a) == [family |-> "AF_INET", addr |-> a, flow |-> 0, scope |-> 0]
V6Host(a, f, s) == [family |-> "AF_INET6", addr |-> a, flow |-> f, scope |-> s]

Hosts == {V4Host(a) : a \in Addrs4}
         \cup {V6Host(a, f, s) : a \in Addrs6, f \in Labels, s \in Labels}
Endpoint(h, p) == [host |-> h, port |-> p]

\* A host of a family the library does not know.
OtherHost == [family |-> "AF_UNIX", addr |-> 0, flow |-> 0, scope |-> 0]

\* NULL and NONE are no values of either kind.
ASSUME AddressesAssumption ==
    /\ Localhost4 \in Addrs4
    /\ 0 \in Labels
    /\ {0} \subseteq Ports /\ Ports \subseteq PortNumbers
    /\ NULL # NONE
    /\ {NULL, NONE} \cap (IpImpls \cup SockAddrImpls) = {}

VARIABLES
    ipImplPtr,    \* what each IpAddress points to
    implPtr,      \* what each SocketAddress points to
    hosts,        \* the host each IpAddress is meant to name
    endpoints,    \* the endpoint each SocketAddress is meant to name
    terminated    \* an exception left a noexcept function

ipVars == <<ipImplPtr, hosts>>
sockVars == <<implPtr, endpoints>>
vars == <<ipVars, sockVars, terminated>>

-----------------------------------------------------------------------------
(* The kernel's side of a sockaddr_storage.                                *)

\* htons and ntohs on a little-endian machine: 16 bits, the bytes exchanged.
ExchangeBytes(n) == (n % 256) * 256 + n \div 256

\* What accept, or getaddrinfo, writes for an endpoint.
Written(h, p) == [ss_family |-> h.family, port |-> ExchangeBytes(p),
                  addr |-> h.addr, flow |-> h.flow, scope |-> h.scope]

\* What ::bind or ::connect on a socket of a family takes from a storage of
\* which len bytes are given: nothing if it is of another family or too short.
Length(family) == IF family = "AF_INET" THEN 16 ELSE 28
ReadByKernel(family, storage, len) ==
    IF storage.ss_family # family \/ len < Length(family)
    THEN {}
    ELSE {Endpoint([family |-> family, addr |-> storage.addr,
                    flow |-> storage.flow, scope |-> storage.scope],
                   ExchangeBytes(storage.port))}

-----------------------------------------------------------------------------
(* The conversions.  Those that can throw return the set of their results, *)
(* which is empty when they do.                                            *)

isIpv4(ip) == ip.ipVersion = "AF_INET"

toNetworkByteOrder(port) == ExchangeBytes(port)

\* Ipv4Impl::getSockaddrStorage and Ipv6Impl::getSockaddrStorage
makeSockaddrStorage(ip, port) ==
    IF isIpv4(ip)
    THEN [ss_family |-> "AF_INET", port |-> toNetworkByteOrder(port),
          addr |-> ip.ipv4Addr, flow |-> 0, scope |-> 0]
    ELSE [ss_family |-> "AF_INET6", port |-> toNetworkByteOrder(port),
          addr |-> ip.ipv6Addr, flow |-> ip.flowInfo, scope |-> ip.scopeId]

makeIpImpl(storage) ==
    CASE storage.ss_family = "AF_INET" -> {Ipv4Impl(storage.addr)}
      [] storage.ss_family = "AF_INET6" ->
            {Ipv6Impl(storage.addr, storage.flow, storage.scope)}
      [] OTHER -> {}

\* The number is taken as it stands in memory.
makeTcpPort_hostOrder(storage) ==
    IF storage.ss_family \in {"AF_INET", "AF_INET6"} THEN {storage.port} ELSE {}

\* The bytes are exchanged in an int, which is not cut down to 16 bits.
makeTcpPort_wide(storage) ==
    IF storage.ss_family \in {"AF_INET", "AF_INET6"}
    THEN {storage.port * 256 + storage.port \div 256} ELSE {}

makeTcpPort(storage) ==
    IF storage.ss_family \in {"AF_INET", "AF_INET6"}
    THEN {ExchangeBytes(storage.port)} ELSE {}

\* A copy of an IPv6 address is made from its in6_addr alone.
copy_noLabels(ip) ==
    IF isIpv4(ip) THEN Ipv4Impl(ip.ipv4Addr) ELSE Ipv6Impl(ip.ipv6Addr, 0, 0)

\* IpImpl::copy
copy(ip) ==
    IF isIpv4(ip) THEN Ipv4Impl(ip.ipv4Addr)
                  ELSE Ipv6Impl(ip.ipv6Addr, ip.flowInfo, ip.scopeId)

SockAddrImpl(ip, port) ==
    [ipAddr |-> ip, tcpPort |-> port, addrlen |-> IF isIpv4(ip) THEN 16 ELSE 28]

makeSockAddr(storage) ==
    {SockAddrImpl(ip, port) : ip \in makeIpImpl(storage),
                              port \in makeTcpPort(storage)}

\* The three arguments ServerSocketFsm and StreamSocketFsm pass on to the kernel.
getAddressFamily(sa) == IF isIpv4(sa.ipAddr) THEN "AF_INET" ELSE "AF_INET6"
getSockaddrStorage(sa) == makeSockaddrStorage(sa.ipAddr, sa.tcpPort)
getAddrlen(sa) == sa.addrlen

\* A text names an address of one family; for the other one it is malformed.
inet_pton(family, text) ==
    IF text.family = family THEN {text.addr} ELSE {}
Texts == [family : {"AF_INET"}, addr : Addrs4]
         \cup [family : {"AF_INET6"}, addr : Addrs6]

makeIpv4Address(text) == {Ipv4Impl(a) : a \in inet_pton("AF_INET", text)}
makeIpv6Address(text, flow, scope) ==
    {Ipv6Impl(a, flow, scope) : a \in inet_pton("AF_INET6", text)}

-----------------------------------------------------------------------------
Init ==
    /\ ipImplPtr = [x \in IpVars |-> NONE]
    /\ hosts = [x \in IpVars |-> NONE]
    /\ implPtr = [s \in SockVars |-> NONE]
    /\ endpoints = [s \in SockVars |-> NONE]
    /\ terminated = FALSE

\* A program constructs only where there is no object, assigns to any object,
\* and reads no object that it has moved from: the code dereferences the
\* pointer unchecked.
Absent(ptr, x) == ~terminated /\ ptr[x] = NONE
Alive(ptr, x) == ~terminated /\ ptr[x] # NONE
Usable(ptr, x) == Alive(ptr, x) /\ ptr[x] # NULL

\* An allocation failed, a text or a family was refused: the exception leaves
\* every object as it was.
Throws == UNCHANGED vars

Moved(f, to, from) == [f EXCEPT ![to] = f[from], ![from] = NULL]
Swapped(f, x, y) == [f EXCEPT ![x] = f[y], ![y] = f[x]]

PutIp(x, ip, host) ==
    /\ ipImplPtr' = [ipImplPtr EXCEPT ![x] = ip]
    /\ hosts' = [hosts EXCEPT ![x] = host]
    /\ UNCHANGED <<sockVars, terminated>>

PutSock(s, sa, endpoint) ==
    /\ implPtr' = [implPtr EXCEPT ![s] = sa]
    /\ endpoints' = [endpoints EXCEPT ![s] = endpoint]
    /\ UNCHANGED <<ipVars, terminated>>

-----------------------------------------------------------------------------
(* IpAddress.                                                              *)

DefaultIp(x) ==
    /\ Absent(ipImplPtr, x)
    /\ PutIp(x, Ipv4Impl(Localhost4), V4Host(Localhost4)) \/ Throws

\* From a host name, of which the first answer of getaddrinfo is taken, or
\* from a storage: both lead to makeIpImpl.
MakeIp(x) ==
    /\ Absent(ipImplPtr, x)
    /\ \/ \E h \in Hosts \cup {OtherHost} :
            \E ip \in makeIpImpl(Written(h, 0)) : PutIp(x, ip, h)
       \/ Throws

MakeIpv4(x) ==
    /\ Absent(ipImplPtr, x)
    /\ \/ \E text \in Texts : \E ip \in makeIpv4Address(text) :
            PutIp(x, ip, V4Host(text.addr))
       \/ Throws

MakeIpv6(x) ==
    /\ Absent(ipImplPtr, x)
    /\ \/ \E text \in Texts, f, l \in Labels :
            \E ip \in makeIpv6Address(text, f, l) :
               PutIp(x, ip, V6Host(text.addr, f, l))
       \/ Throws

CopyIp(x, y) ==
    /\ Absent(ipImplPtr, x) /\ Usable(ipImplPtr, y)
    /\ PutIp(x, copy(ipImplPtr[y]), hosts[y]) \/ Throws

\* The copy is complete before it is exchanged for the old value.
CopyAssignIp(x, y) ==
    /\ Alive(ipImplPtr, x) /\ Usable(ipImplPtr, y)
    /\ PutIp(x, copy(ipImplPtr[y]), hosts[y]) \/ Throws

\* The move constructor, and move assignment, which asserts this != &rhs.
MoveIp(x, y) ==
    /\ x # y /\ Alive(ipImplPtr, y)
    /\ ipImplPtr' = Moved(ipImplPtr, x, y)
    /\ hosts' = Moved(hosts, x, y)
    /\ UNCHANGED <<sockVars, terminated>>

SwapIp(x, y) ==
    /\ Alive(ipImplPtr, x) /\ Alive(ipImplPtr, y)
    /\ ipImplPtr' = Swapped(ipImplPtr, x, y)
    /\ hosts' = Swapped(hosts, x, y)
    /\ UNCHANGED <<sockVars, terminated>>

DestroyIp(x) ==
    /\ Alive(ipImplPtr, x)
    /\ PutIp(x, NONE, NONE)

-----------------------------------------------------------------------------
(* SocketAddress.                                                          *)

DefaultSock(s) ==
    /\ Absent(implPtr, s)
    /\ \/ PutSock(s, SockAddrImpl(Ipv4Impl(Localhost4), 0),
                  Endpoint(V4Host(Localhost4), 0))
       \/ Throws

\* SocketAddress(ip, port) copies the IpAddress into its parameter.
SockFromIp(s, x) ==
    /\ Absent(implPtr, s) /\ Usable(ipImplPtr, x)
    /\ \/ \E p \in Ports :
            PutSock(s, SockAddrImpl(copy(ipImplPtr[x]), p), Endpoint(hosts[x], p))
       \/ Throws

\* SocketAddress(std::move(ip), port): the parameter owns the address before
\* the implementation is allocated; when that fails, the address is gone.
SockFromMovedIp(s, x) ==
    /\ Absent(implPtr, s) /\ Usable(ipImplPtr, x)
    /\ ipImplPtr' = [ipImplPtr EXCEPT ![x] = NULL]
    /\ hosts' = [hosts EXCEPT ![x] = NULL]
    /\ \/ \E p \in Ports :
            /\ implPtr' = [implPtr EXCEPT ![s] = SockAddrImpl(ipImplPtr[x], p)]
            /\ endpoints' = [endpoints EXCEPT ![s] = Endpoint(hosts[x], p)]
       \/ UNCHANGED sockVars
    /\ UNCHANGED terminated

MakeIpv4SockAddr(s) ==
    /\ Absent(implPtr, s)
    /\ \/ \E text \in Texts, p \in Ports : \E ip \in makeIpv4Address(text) :
            PutSock(s, SockAddrImpl(ip, p), Endpoint(V4Host(text.addr), p))
       \/ Throws

MakeIpv6SockAddr(s) ==
    /\ Absent(implPtr, s)
    /\ \/ \E text \in Texts, f, l \in Labels, p \in Ports :
            \E ip \in makeIpv6Address(text, f, l) :
               PutSock(s, SockAddrImpl(ip, p), Endpoint(V6Host(text.addr, f, l), p))
       \/ Throws

\* The address of a peer, as accept wrote it.
MakeSockAddr(s) ==
    /\ Absent(implPtr, s)
    /\ \/ \E h \in Hosts \cup {OtherHost}, p \in Ports :
            \E sa \in makeSockAddr(Written(h, p)) : PutSock(s, sa, Endpoint(h, p))
       \/ Throws

CopySock(s, r) ==
    /\ Absent(implPtr, s) /\ Usable(implPtr, r)
    /\ \/ PutSock(s, SockAddrImpl(copy(implPtr[r].ipAddr), implPtr[r].tcpPort),
                  endpoints[r])
       \/ Throws

CopyAssignSock(s, r) ==
    /\ Alive(implPtr, s) /\ Usable(implPtr, r)
    /\ \/ PutSock(s, SockAddrImpl(copy(implPtr[r].ipAddr), implPtr[r].tcpPort),
                  endpoints[r])
       \/ Throws

MoveSock(s, r) ==
    /\ s # r /\ Alive(implPtr, r)
    /\ implPtr' = Moved(implPtr, s, r)
    /\ endpoints' = Moved(endpoints, s, r)
    /\ UNCHANGED <<ipVars, terminated>>

SwapSock(s, r) ==
    /\ Alive(implPtr, s) /\ Alive(implPtr, r)
    /\ implPtr' = Swapped(implPtr, s, r)
    /\ endpoints' = Swapped(endpoints, s, r)
    /\ UNCHANGED <<ipVars, terminated>>

DestroySock(s) ==
    /\ Alive(implPtr, s)
    /\ PutSock(s, NONE, NONE)

\* getIpAddress copies, which allocates, and is noexcept: a failure ends the
\* process.
GetIpAddress(x, s) ==
    /\ Absent(ipImplPtr, x) /\ Usable(implPtr, s)
    /\ \/ PutIp(x, copy(implPtr[s].ipAddr), endpoints[s].host)
       \/ /\ terminated' = TRUE
          /\ UNCHANGED <<ipVars, sockVars>>

Next ==
    \/ \E x \in IpVars :
         \/ DefaultIp(x) \/ MakeIp(x) \/ MakeIpv4(x) \/ MakeIpv6(x)
         \/ DestroyIp(x)
         \/ \E y \in IpVars :
              CopyIp(x, y) \/ CopyAssignIp(x, y) \/ MoveIp(x, y) \/ SwapIp(x, y)
    \/ \E s \in SockVars :
         \/ DefaultSock(s) \/ MakeIpv4SockAddr(s) \/ MakeIpv6SockAddr(s)
         \/ MakeSockAddr(s) \/ DestroySock(s)
         \/ \E x \in IpVars :
              SockFromIp(s, x) \/ SockFromMovedIp(s, x) \/ GetIpAddress(x, s)
         \/ \E r \in SockVars :
              \/ CopySock(s, r) \/ CopyAssignSock(s, r)
              \/ MoveSock(s, r) \/ SwapSock(s, r)

Spec == Init /\ [][Next]_vars

-----------------------------------------------------------------------------
\* Ports have 16 bits, and addrlen is the size of one of the two structures.
TypeOK ==
    /\ ipImplPtr \in [IpVars -> IpImpls \cup {NULL, NONE}]
    /\ implPtr \in [SockVars -> SockAddrImpls \cup {NULL, NONE}]
    /\ hosts \in [IpVars -> Hosts \cup {NULL, NONE}]
    /\ endpoints \in [SockVars ->
                        [host : Hosts, port : PortNumbers] \cup {NULL, NONE}]
    /\ terminated \in BOOLEAN

NamesHost(ip, host) ==
    IF ip \in {NULL, NONE} THEN host = ip
                           ELSE makeIpImpl(Written(host, 0)) = {ip}

NamesEndpoint(sa, endpoint) ==
    IF sa \in {NULL, NONE}
    THEN endpoint = sa
    ELSE ReadByKernel(getAddressFamily(sa), getSockaddrStorage(sa),
                      getAddrlen(sa)) = {endpoint}

\* Whatever was copied, moved, assigned or swapped before, and whichever of
\* these calls threw: the family, the storage and the length that bind and
\* connect pass on (ServerSocketFsm.cpp:84-90) fit together, and the kernel
\* takes from them the endpoint the program means, with its port in the right
\* byte order and its IPv6 labels.  An object means nothing exactly if it is
\* empty.
ToldAsMeant ==
    /\ \A s \in SockVars : NamesEndpoint(implPtr[s], endpoints[s])
    /\ \A x \in IpVars : NamesHost(ipImplPtr[x], hosts[x])

\* makeSockAddr undoes getSockaddrStorage: an address that a server announces
\* and a peer that connects to it reports are the same object, field by field,
\* and an address the kernel reported can be used to connect.
RoundTrip ==
    \A s \in SockVars :
       implPtr[s] \notin {NULL, NONE} =>
          makeSockAddr(getSockaddrStorage(implPtr[s])) = {implPtr[s]}

=============================================================================
