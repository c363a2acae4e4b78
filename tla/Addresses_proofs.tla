-------------------------- MODULE Addresses_proofs --------------------------
(***************************************************************************)
(* Theorems about Addresses, for any number of objects, addresses, labels  *)
(* and ports.                                                              *)
(***************************************************************************)
EXTENDS Addresses, TLAPS

\* The host that an implementation stands for.
HostOf(ip) ==
    IF isIpv4(ip) THEN V4Host(ip.ipv4Addr)
                  ELSE V6Host(ip.ipv6Addr, ip.flowInfo, ip.scopeId)

Reading(sa) ==
    ReadByKernel(getAddressFamily(sa), getSockaddrStorage(sa), getAddrlen(sa))

\* Three facts, cited one at a time: next to the number itself the provers do
\* not see through the interval.
LEMMA SixteenBits == MAX_PORTNB = 65535
  BY DEF MAX_PORTNB

LEMMA MaxIsInt == MAX_PORTNB \in Int
  BY DEF MAX_PORTNB

LEMMA InInterval ==
    ASSUME NEW b \in Int, NEW n \in 0..b
    PROVE  n \in Int /\ 0 <= n /\ n <= b
  OBVIOUS

\* Two bytes make a 16-bit number, and are found in it again.
LEMMA TwoBytes ==
    ASSUME NEW high \in Int, 0 <= high, high <= 255,
           NEW low \in Int, 0 <= low, low <= 255
    PROVE  /\ high * 256 + low \in PortNumbers
           /\ (high * 256 + low) % 256 = low
           /\ (high * 256 + low) \div 256 = high
<1>1. /\ high * 256 + low \in Int
      /\ 0 <= high * 256 + low
      /\ high * 256 + low <= 65535
  OBVIOUS
<1>2. high * 256 + low \in PortNumbers
  <2> DEFINE n == high * 256 + low
  <2>1. n \in Int /\ 0 <= n /\ n <= MAX_PORTNB
    BY <1>1, SixteenBits
  <2> HIDE DEF n
  <2>2. n \in PortNumbers
    BY <2>1, MaxIsInt DEF PortNumbers
  <2> QED
    BY <2>2 DEF n
<1>3. (high * 256 + low) % 256 = low
  OBVIOUS
<1>4. (high * 256 + low) \div 256 = high
  OBVIOUS
<1> QED
  BY <1>2, <1>3, <1>4

\* Exchanging the bytes of a 16-bit number gives one, and twice the number.
LEMMA ExchangedTwice ==
    ASSUME NEW n \in PortNumbers
    PROVE  /\ ExchangeBytes(n) \in PortNumbers
           /\ ExchangeBytes(ExchangeBytes(n)) = n
<1> DEFINE low  == n % 256
           high == n \div 256
<1>1. n \in Int /\ 0 <= n /\ n <= 65535
  <2>1. n \in Int /\ 0 <= n /\ n <= MAX_PORTNB
    BY MaxIsInt, InInterval DEF PortNumbers
  <2>2. QED
    BY <2>1, SixteenBits
<1>2. low \in Int /\ 0 <= low /\ low <= 255
  BY <1>1
<1>3. high \in Int /\ 0 <= high /\ high <= 255
  BY <1>1
<1>4. low = n - 256 * high
  BY <1>1
<1>5. ExchangeBytes(n) = low * 256 + high
  BY DEF ExchangeBytes
<1> HIDE DEF low, high
<1>6. n = high * 256 + low
  BY <1>1, <1>2, <1>3, <1>4
<1>7. ExchangeBytes(n) \in PortNumbers
  BY <1>2, <1>3, <1>5, TwoBytes
<1>8. ExchangeBytes(n) % 256 = high /\ ExchangeBytes(n) \div 256 = low
  BY <1>2, <1>3, <1>5, TwoBytes
<1>9. ExchangeBytes(ExchangeBytes(n)) = high * 256 + low
  BY <1>8 DEF ExchangeBytes
<1> QED
  BY <1>6, <1>7, <1>9

\* The two kinds of implementation and of host are told apart by one field.
LEMMA Kinds ==
    /\ \A ip \in IpImpls :
          \/ /\ isIpv4(ip) /\ ip.ipv4Addr \in Addrs4
             /\ ip = Ipv4Impl(ip.ipv4Addr)
          \/ /\ ~isIpv4(ip) /\ ip.ipv6Addr \in Addrs6
             /\ ip.flowInfo \in Labels /\ ip.scopeId \in Labels
             /\ ip = Ipv6Impl(ip.ipv6Addr, ip.flowInfo, ip.scopeId)
    /\ \A ip \in IpImpls : HostOf(ip) \in Hosts /\ copy(ip) = ip
  BY DEF IpImpls, Ipv4Impl, Ipv6Impl, isIpv4, HostOf, Hosts, copy

LEMMA OfIpv4 ==
    ASSUME NEW a \in Addrs4
    PROVE  Ipv4Impl(a) \in IpImpls /\ HostOf(Ipv4Impl(a)) = V4Host(a)
  BY DEF IpImpls, HostOf, isIpv4, Ipv4Impl

LEMMA OfIpv6 ==
    ASSUME NEW a \in Addrs6, NEW f \in Labels, NEW l \in Labels
    PROVE  Ipv6Impl(a, f, l) \in IpImpls /\ HostOf(Ipv6Impl(a, f, l)) = V6Host(a, f, l)
  BY DEF IpImpls, HostOf, isIpv4, Ipv6Impl

\* Every host has one implementation, made from the storage that names it.
LEMMA MadeFromStorage ==
    ASSUME NEW h \in Hosts, NEW p
    PROVE  \E ip \in IpImpls :
              makeIpImpl(Written(h, p)) = {ip} /\ HostOf(ip) = h
<1>1. CASE \E a \in Addrs4 : h = V4Host(a)
  <2>1. PICK a \in Addrs4 : h = V4Host(a)
    BY <1>1
  <2>2. makeIpImpl(Written(h, p)) = {Ipv4Impl(a)}
    BY <2>1 DEF V4Host, Written, makeIpImpl
  <2>3. Ipv4Impl(a) \in IpImpls /\ HostOf(Ipv4Impl(a)) = h
    BY <2>1, OfIpv4
  <2> QED
    BY <2>2, <2>3
<1>2. CASE \E a \in Addrs6, f, l \in Labels : h = V6Host(a, f, l)
  <2>1. PICK a \in Addrs6, f \in Labels, l \in Labels : h = V6Host(a, f, l)
    BY <1>2
  <2>2. makeIpImpl(Written(h, p)) = {Ipv6Impl(a, f, l)}
    BY <2>1 DEF V6Host, Written, makeIpImpl
  <2>3. Ipv6Impl(a, f, l) \in IpImpls /\ HostOf(Ipv6Impl(a, f, l)) = h
    BY <2>1, OfIpv6
  <2> QED
    BY <2>2, <2>3
<1> QED
  BY <1>1, <1>2 DEF Hosts

\* A storage of an unknown family gives no implementation.
LEMMA OtherRefused == \A p : makeIpImpl(Written(OtherHost, p)) = {}
  BY DEF OtherHost, Written, makeIpImpl

\* An implementation is the one made from the storage of its host.
LEMMA StorageOfHost ==
    ASSUME NEW ip \in IpImpls, NEW p
    PROVE  makeIpImpl(Written(HostOf(ip), p)) = {ip}
<1>1. CASE isIpv4(ip)
  BY <1>1, Kinds DEF HostOf, V4Host, Written, makeIpImpl
<1>2. CASE ~isIpv4(ip)
  BY <1>2, Kinds DEF HostOf, V6Host, Written, makeIpImpl
<1> QED
  BY <1>1, <1>2

\* The kernel reads from an implementation what it was made from.
LEMMA KernelReads ==
    ASSUME NEW ip \in IpImpls, NEW p \in PortNumbers
    PROVE  Reading(SockAddrImpl(ip, p)) = {Endpoint(HostOf(ip), p)}
<1>1. ExchangeBytes(toNetworkByteOrder(p)) = p
  BY ExchangedTwice DEF toNetworkByteOrder
<1>2. CASE isIpv4(ip)
  BY <1>1, <1>2 DEF Reading, ReadByKernel, getAddressFamily, getSockaddrStorage,
        getAddrlen, makeSockaddrStorage, Length, HostOf, V4Host, Endpoint,
        SockAddrImpl
<1>3. CASE ~isIpv4(ip)
  BY <1>1, <1>3 DEF Reading, ReadByKernel, getAddressFamily, getSockaddrStorage,
        getAddrlen, makeSockaddrStorage, Length, HostOf, V6Host, Endpoint,
        SockAddrImpl
<1> QED
  BY <1>2, <1>3

\* What the kernel wrote for a host and a port makes the object for them.
LEMMA MadeByKernel ==
    ASSUME NEW h \in Hosts, NEW p \in PortNumbers
    PROVE  \E ip \in IpImpls : /\ makeSockAddr(Written(h, p)) = {SockAddrImpl(ip, p)}
                               /\ HostOf(ip) = h
<1>1. PICK ip \in IpImpls : makeIpImpl(Written(h, p)) = {ip} /\ HostOf(ip) = h
  BY MadeFromStorage
<1>2. h.family \in {"AF_INET", "AF_INET6"}
  BY DEF Hosts, V4Host, V6Host
<1>3. makeTcpPort(Written(h, p)) = {p}
  BY <1>2, ExchangedTwice DEF makeTcpPort, Written
<1> QED
  BY <1>1, <1>3 DEF makeSockAddr

-----------------------------------------------------------------------------
(* The inductive invariant: an object is empty and means nothing, or it is *)
(* the one implementation of what it means.                                *)

IpAgrees(ip, host) ==
    \/ ip \in {NULL, NONE} /\ host = ip
    \/ ip \in IpImpls /\ host = HostOf(ip)

SockAgrees(sa, endpoint) ==
    \/ sa \in {NULL, NONE} /\ endpoint = sa
    \/ \E ip \in IpImpls, p \in PortNumbers :
          sa = SockAddrImpl(ip, p) /\ endpoint = Endpoint(HostOf(ip), p)

IpsAgree == \A x \in IpVars : IpAgrees(ipImplPtr[x], hosts[x])
SocksAgree == \A s \in SockVars : SockAgrees(implPtr[s], endpoints[s])

IInv == TypeOK /\ IpsAgree /\ SocksAgree

IpTypes(ip, host) ==
    ip \in IpImpls \cup {NULL, NONE} /\ host \in Hosts \cup {NULL, NONE}
SockTypes(sa, endpoint) ==
    /\ sa \in SockAddrImpls \cup {NULL, NONE}
    /\ endpoint \in [host : Hosts, port : PortNumbers] \cup {NULL, NONE}

LEMMA AgreeingTypes ==
    /\ \A ip, h : IpAgrees(ip, h) => IpTypes(ip, h)
    /\ \A sa, e : SockAgrees(sa, e) => SockTypes(sa, e)
<1>1. ASSUME NEW ip, NEW h, IpAgrees(ip, h) PROVE IpTypes(ip, h)
  BY <1>1, Kinds DEF IpAgrees, IpTypes
<1>2. ASSUME NEW ip \in IpImpls, NEW p \in PortNumbers
      PROVE  SockTypes(SockAddrImpl(ip, p), Endpoint(HostOf(ip), p))
  <2>1. SockAddrImpl(ip, p) \in SockAddrImpls
    BY DEF SockAddrImpl, SockAddrImpls
  <2>2. Endpoint(HostOf(ip), p) \in [host : Hosts, port : PortNumbers]
    BY Kinds DEF Endpoint
  <2> QED
    BY <2>1, <2>2 DEF SockTypes
<1>3. ASSUME NEW sa, NEW e, SockAgrees(sa, e) PROVE SockTypes(sa, e)
  BY <1>2, <1>3 DEF SockAgrees, SockTypes
<1> QED
  BY <1>1, <1>3

\* The implementation for a text.
LEMMA FromIpv4Text ==
    ASSUME NEW text \in Texts, NEW ip \in makeIpv4Address(text)
    PROVE  ip \in IpImpls /\ HostOf(ip) = V4Host(text.addr)
  BY OfIpv4 DEF Texts, makeIpv4Address, inet_pton

LEMMA FromIpv6Text ==
    ASSUME NEW text \in Texts, NEW f \in Labels, NEW l \in Labels,
           NEW ip \in makeIpv6Address(text, f, l)
    PROVE  ip \in IpImpls /\ HostOf(ip) = V6Host(text.addr, f, l)
  BY OfIpv6 DEF Texts, makeIpv6Address, inet_pton

\* What the calls share: putting an object in a place, moving, exchanging.
LEMMA PutIpKeeps ==
    ASSUME IInv, NEW x \in IpVars, NEW ip, NEW h, IpAgrees(ip, h), PutIp(x, ip, h)
    PROVE  IInv'
<1>1. IpTypes(ip, h)
  BY AgreeingTypes
<1>2. TypeOK'
  BY <1>1 DEF IInv, TypeOK, PutIp, IpTypes, sockVars
<1>3. IpsAgree'
  BY DEF IInv, TypeOK, IpsAgree, PutIp
<1>4. SocksAgree'
  BY DEF IInv, SocksAgree, PutIp, sockVars
<1> QED
  BY <1>2, <1>3, <1>4 DEF IInv

LEMMA PutSockKeeps ==
    ASSUME IInv, NEW s \in SockVars, NEW sa, NEW e, SockAgrees(sa, e),
           PutSock(s, sa, e)
    PROVE  IInv'
<1>1. SockTypes(sa, e)
  BY AgreeingTypes
<1>2. TypeOK'
  BY <1>1 DEF IInv, TypeOK, PutSock, SockTypes, ipVars
<1>3. SocksAgree'
  BY DEF IInv, TypeOK, SocksAgree, PutSock
<1>4. IpsAgree'
  BY DEF IInv, IpsAgree, PutSock, ipVars
<1> QED
  BY <1>2, <1>3, <1>4 DEF IInv

LEMMA StutterKeeps ==
    ASSUME IInv, UNCHANGED vars
    PROVE  IInv'
  BY DEF IInv, TypeOK, IpsAgree, SocksAgree, vars, ipVars, sockVars

LEMMA MoveIpKeeps ==
    ASSUME IInv, NEW x \in IpVars, NEW y \in IpVars, MoveIp(x, y)
    PROVE  IInv'
<1>1. x # y /\ UNCHANGED sockVars /\ UNCHANGED terminated
  BY DEF MoveIp
<1>2. TypeOK'
  BY <1>1 DEF IInv, TypeOK, MoveIp, Moved, sockVars
<1>3. IpsAgree'
  BY <1>1 DEF IInv, TypeOK, IpsAgree, MoveIp, Moved, IpAgrees
<1>4. SocksAgree'
  BY <1>1 DEF IInv, SocksAgree, sockVars
<1> QED
  BY <1>2, <1>3, <1>4 DEF IInv

LEMMA SwapIpKeeps ==
    ASSUME IInv, NEW x \in IpVars, NEW y \in IpVars, SwapIp(x, y)
    PROVE  IInv'
<1>1. UNCHANGED sockVars /\ UNCHANGED terminated
  BY DEF SwapIp
<1>2. TypeOK'
  BY <1>1 DEF IInv, TypeOK, SwapIp, Swapped, sockVars
<1>3. IpsAgree'
  BY <1>1 DEF IInv, TypeOK, IpsAgree, SwapIp, Swapped
<1>4. SocksAgree'
  BY <1>1 DEF IInv, SocksAgree, sockVars
<1> QED
  BY <1>2, <1>3, <1>4 DEF IInv

LEMMA MoveSockKeeps ==
    ASSUME IInv, NEW s \in SockVars, NEW r \in SockVars, MoveSock(s, r)
    PROVE  IInv'
<1>1. s # r /\ UNCHANGED ipVars /\ UNCHANGED terminated
  BY DEF MoveSock
<1>2. TypeOK'
  BY <1>1 DEF IInv, TypeOK, MoveSock, Moved, ipVars
<1>3. SockAgrees(NULL, NULL)
  BY DEF SockAgrees
<1>4. SocksAgree'
  BY <1>1, <1>3 DEF IInv, TypeOK, SocksAgree, MoveSock, Moved
<1>5. IpsAgree'
  BY <1>1 DEF IInv, IpsAgree, ipVars
<1> QED
  BY <1>2, <1>4, <1>5 DEF IInv

LEMMA SwapSockKeeps ==
    ASSUME IInv, NEW s \in SockVars, NEW r \in SockVars, SwapSock(s, r)
    PROVE  IInv'
<1>1. UNCHANGED ipVars /\ UNCHANGED terminated
  BY DEF SwapSock
<1>2. TypeOK'
  BY <1>1 DEF IInv, TypeOK, SwapSock, Swapped, ipVars
<1>3. SocksAgree'
  BY <1>1 DEF IInv, TypeOK, SocksAgree, SwapSock, Swapped
<1>4. IpsAgree'
  BY <1>1 DEF IInv, IpsAgree, ipVars
<1> QED
  BY <1>2, <1>3, <1>4 DEF IInv

-----------------------------------------------------------------------------
(* One lemma for the calls on IpAddress objects, one for SocketAddress.    *)

LEMMA InitHolds == Init => IInv
<1> SUFFICES ASSUME Init PROVE IInv
  OBVIOUS
<1>1. TypeOK
  BY DEF Init, TypeOK
<1>2. IpsAgree /\ SocksAgree
  BY DEF Init, IpsAgree, IpAgrees, SocksAgree, SockAgrees
<1> QED
  BY <1>1, <1>2 DEF IInv

\* An object that holds something holds what it means.
LEMMA HeldIp ==
    ASSUME IInv, NEW x \in IpVars, Usable(ipImplPtr, x)
    PROVE  ipImplPtr[x] \in IpImpls /\ hosts[x] = HostOf(ipImplPtr[x])
  BY DEF IInv, IpsAgree, IpAgrees, Usable, Alive

LEMMA HeldSock ==
    ASSUME IInv, NEW s \in SockVars, Usable(implPtr, s)
    PROVE  \E ip \in IpImpls, p \in PortNumbers :
              /\ implPtr[s] = SockAddrImpl(ip, p)
              /\ endpoints[s] = Endpoint(HostOf(ip), p)
  BY DEF IInv, SocksAgree, SockAgrees, Usable, Alive

LEMMA IpStepKeeps ==
    ASSUME IInv, NEW x \in IpVars,
           \/ DefaultIp(x) \/ MakeIp(x) \/ MakeIpv4(x) \/ MakeIpv6(x)
           \/ DestroyIp(x)
    PROVE  IInv'
<1>1. CASE UNCHANGED vars
  BY <1>1, StutterKeeps
<1>2. CASE DefaultIp(x) /\ ~UNCHANGED vars
  <2>1. IpAgrees(Ipv4Impl(Localhost4), V4Host(Localhost4))
    BY OfIpv4, AddressesAssumption DEF IpAgrees
  <2>2. PutIp(x, Ipv4Impl(Localhost4), V4Host(Localhost4))
    BY <1>2 DEF DefaultIp, Throws
  <2> QED
    BY <2>1, <2>2, PutIpKeeps
<1>3. CASE MakeIp(x) /\ ~UNCHANGED vars
  <2>1. PICK h \in Hosts \cup {OtherHost} :
           \E ip \in makeIpImpl(Written(h, 0)) : PutIp(x, ip, h)
    BY <1>3 DEF MakeIp, Throws
  <2>2. PICK ip \in makeIpImpl(Written(h, 0)) : PutIp(x, ip, h)
    BY <2>1
  <2>3. h \in Hosts
    BY <2>2, OtherRefused
  <2>4. IpAgrees(ip, h)
    BY <2>2, <2>3, MadeFromStorage DEF IpAgrees
  <2> QED
    BY <2>2, <2>4, PutIpKeeps
<1>4. CASE MakeIpv4(x) /\ ~UNCHANGED vars
  <2>1. PICK text \in Texts :
           \E ip \in makeIpv4Address(text) : PutIp(x, ip, V4Host(text.addr))
    BY <1>4 DEF MakeIpv4, Throws
  <2>2. PICK ip \in makeIpv4Address(text) : PutIp(x, ip, V4Host(text.addr))
    BY <2>1
  <2>3. IpAgrees(ip, V4Host(text.addr))
    BY FromIpv4Text DEF IpAgrees
  <2> QED
    BY <2>2, <2>3, PutIpKeeps
<1>5. CASE MakeIpv6(x) /\ ~UNCHANGED vars
  <2>1. PICK text \in Texts, f \in Labels, l \in Labels :
           \E ip \in makeIpv6Address(text, f, l) :
              PutIp(x, ip, V6Host(text.addr, f, l))
    BY <1>5 DEF MakeIpv6, Throws
  <2>2. PICK ip \in makeIpv6Address(text, f, l) :
           PutIp(x, ip, V6Host(text.addr, f, l))
    BY <2>1
  <2>3. IpAgrees(ip, V6Host(text.addr, f, l))
    BY FromIpv6Text DEF IpAgrees
  <2> QED
    BY <2>2, <2>3, PutIpKeeps
<1>6. CASE DestroyIp(x)
  <2>1. IpAgrees(NONE, NONE)
    BY DEF IpAgrees
  <2> QED
    BY <1>6, <2>1, PutIpKeeps DEF DestroyIp
<1> QED
  BY <1>1, <1>2, <1>3, <1>4, <1>5, <1>6

\* The calls that copy: construction and assignment.
LEMMA IpCopyKeeps ==
    ASSUME IInv, NEW x \in IpVars, NEW y \in IpVars,
           CopyIp(x, y) \/ CopyAssignIp(x, y)
    PROVE  IInv'
<1>1. CASE UNCHANGED vars
  BY <1>1, StutterKeeps
<1>2. CASE ~UNCHANGED vars
  <2>1. Usable(ipImplPtr, y) /\ PutIp(x, copy(ipImplPtr[y]), hosts[y])
    BY <1>2 DEF CopyIp, CopyAssignIp, Throws
  <2>2. IpAgrees(copy(ipImplPtr[y]), hosts[y])
    BY <2>1, HeldIp, Kinds DEF IpAgrees
  <2> QED
    BY <2>1, <2>2, PutIpKeeps
<1> QED
  BY <1>1, <1>2

LEMMA SockStepKeeps ==
    ASSUME IInv, NEW s \in SockVars,
           \/ DefaultSock(s) \/ MakeIpv4SockAddr(s) \/ MakeIpv6SockAddr(s)
           \/ MakeSockAddr(s) \/ DestroySock(s)
    PROVE  IInv'
<1>1. CASE UNCHANGED vars
  BY <1>1, StutterKeeps
<1>2. CASE DefaultSock(s) /\ ~UNCHANGED vars
  <2> DEFINE ip == Ipv4Impl(Localhost4)
  <2>1. ip \in IpImpls /\ HostOf(ip) = V4Host(Localhost4)
    BY OfIpv4, AddressesAssumption
  <2>2. 0 \in PortNumbers
    BY AddressesAssumption
  <2>3. PutSock(s, SockAddrImpl(ip, 0), Endpoint(V4Host(Localhost4), 0))
    BY <1>2 DEF DefaultSock, Throws
  <2> HIDE DEF ip
  <2>4. SockAgrees(SockAddrImpl(ip, 0), Endpoint(V4Host(Localhost4), 0))
    BY <2>1, <2>2 DEF SockAgrees
  <2> QED
    BY <2>3, <2>4, PutSockKeeps
<1>3. CASE MakeIpv4SockAddr(s) /\ ~UNCHANGED vars
  <2>1. PICK text \in Texts, p \in Ports : \E ip \in makeIpv4Address(text) :
           PutSock(s, SockAddrImpl(ip, p), Endpoint(V4Host(text.addr), p))
    BY <1>3 DEF MakeIpv4SockAddr, Throws
  <2>2. PICK ip \in makeIpv4Address(text) :
           PutSock(s, SockAddrImpl(ip, p), Endpoint(V4Host(text.addr), p))
    BY <2>1
  <2>3. SockAgrees(SockAddrImpl(ip, p), Endpoint(V4Host(text.addr), p))
    BY FromIpv4Text, AddressesAssumption DEF SockAgrees
  <2> QED
    BY <2>2, <2>3, PutSockKeeps
<1>4. CASE MakeIpv6SockAddr(s) /\ ~UNCHANGED vars
  <2>1. PICK text \in Texts, f \in Labels, l \in Labels, p \in Ports :
           \E ip \in makeIpv6Address(text, f, l) :
              PutSock(s, SockAddrImpl(ip, p), Endpoint(V6Host(text.addr, f, l), p))
    BY <1>4 DEF MakeIpv6SockAddr, Throws
  <2>2. PICK ip \in makeIpv6Address(text, f, l) :
           PutSock(s, SockAddrImpl(ip, p), Endpoint(V6Host(text.addr, f, l), p))
    BY <2>1
  <2>3. SockAgrees(SockAddrImpl(ip, p), Endpoint(V6Host(text.addr, f, l), p))
    BY FromIpv6Text, AddressesAssumption DEF SockAgrees
  <2> QED
    BY <2>2, <2>3, PutSockKeeps
<1>5. CASE MakeSockAddr(s) /\ ~UNCHANGED vars
  <2>1. PICK h \in Hosts \cup {OtherHost}, p \in Ports :
           \E sa \in makeSockAddr(Written(h, p)) : PutSock(s, sa, Endpoint(h, p))
    BY <1>5 DEF MakeSockAddr, Throws
  <2>2. PICK sa \in makeSockAddr(Written(h, p)) : PutSock(s, sa, Endpoint(h, p))
    BY <2>1
  <2>3. makeSockAddr(Written(OtherHost, p)) = {}
    BY OtherRefused DEF makeSockAddr
  <2>4. h \in Hosts /\ p \in PortNumbers
    BY <2>2, <2>3, AddressesAssumption
  <2>5. SockAgrees(sa, Endpoint(h, p))
    BY <2>2, <2>4, MadeByKernel DEF SockAgrees
  <2> QED
    BY <2>2, <2>5, PutSockKeeps
<1>6. CASE DestroySock(s)
  <2>1. SockAgrees(NONE, NONE)
    BY DEF SockAgrees
  <2> QED
    BY <1>6, <2>1, PutSockKeeps DEF DestroySock
<1> QED
  BY <1>1, <1>2, <1>3, <1>4, <1>5, <1>6

LEMMA SockCopyKeeps ==
    ASSUME IInv, NEW s \in SockVars, NEW r \in SockVars,
           CopySock(s, r) \/ CopyAssignSock(s, r)
    PROVE  IInv'
<1>1. CASE UNCHANGED vars
  BY <1>1, StutterKeeps
<1>2. CASE ~UNCHANGED vars
  <2>1. /\ Usable(implPtr, r)
        /\ PutSock(s, SockAddrImpl(copy(implPtr[r].ipAddr), implPtr[r].tcpPort),
                   endpoints[r])
    BY <1>2 DEF CopySock, CopyAssignSock, Throws
  <2>2. PICK ip \in IpImpls, p \in PortNumbers :
           implPtr[r] = SockAddrImpl(ip, p) /\ endpoints[r] = Endpoint(HostOf(ip), p)
    BY <2>1, HeldSock
  <2>3. copy(implPtr[r].ipAddr) = ip /\ implPtr[r].tcpPort = p
    BY <2>2, Kinds DEF SockAddrImpl
  <2>4. SockAgrees(SockAddrImpl(copy(implPtr[r].ipAddr), implPtr[r].tcpPort),
                   endpoints[r])
    BY <2>2, <2>3 DEF SockAgrees
  <2> QED
    BY <2>1, <2>4, PutSockKeeps
<1> QED
  BY <1>1, <1>2

\* The calls that take an address out of one class into the other.
LEMMA SockFromIpKeeps ==
    ASSUME IInv, NEW s \in SockVars, NEW x \in IpVars, SockFromIp(s, x)
    PROVE  IInv'
<1>1. CASE UNCHANGED vars
  BY <1>1, StutterKeeps
<1>2. CASE ~UNCHANGED vars
  <2>1. PICK p \in Ports :
           PutSock(s, SockAddrImpl(copy(ipImplPtr[x]), p), Endpoint(hosts[x], p))
    BY <1>2 DEF SockFromIp, Throws
  <2>2. /\ ipImplPtr[x] \in IpImpls /\ hosts[x] = HostOf(ipImplPtr[x])
        /\ copy(ipImplPtr[x]) = ipImplPtr[x]
    BY HeldIp, Kinds DEF SockFromIp
  <2>3. SockAgrees(SockAddrImpl(copy(ipImplPtr[x]), p), Endpoint(hosts[x], p))
    BY <2>2, AddressesAssumption DEF SockAgrees
  <2> QED
    BY <2>1, <2>3, PutSockKeeps
<1> QED
  BY <1>1, <1>2

LEMMA SockFromMovedIpKeeps ==
    ASSUME IInv, NEW s \in SockVars, NEW x \in IpVars, SockFromMovedIp(s, x)
    PROVE  IInv'
<1>1. /\ ipImplPtr' = [ipImplPtr EXCEPT ![x] = NULL]
      /\ hosts' = [hosts EXCEPT ![x] = NULL]
      /\ UNCHANGED terminated
  BY DEF SockFromMovedIp
<1>2. ipImplPtr[x] \in IpImpls /\ hosts[x] = HostOf(ipImplPtr[x])
  BY HeldIp DEF SockFromMovedIp
<1>3. IpsAgree'
  BY <1>1 DEF IInv, TypeOK, IpsAgree, IpAgrees
<1>4. PICK sa, e : /\ SockAgrees(sa, e) \/ (sa = implPtr[s] /\ e = endpoints[s])
                   /\ implPtr' = [implPtr EXCEPT ![s] = sa]
                   /\ endpoints' = [endpoints EXCEPT ![s] = e]
  <2>1. CASE UNCHANGED sockVars
    BY <2>1 DEF sockVars, IInv, TypeOK
  <2>2. CASE ~UNCHANGED sockVars
    <3>1. PICK p \in Ports :
             /\ implPtr' = [implPtr EXCEPT ![s] = SockAddrImpl(ipImplPtr[x], p)]
             /\ endpoints' = [endpoints EXCEPT ![s] = Endpoint(hosts[x], p)]
      BY <2>2 DEF SockFromMovedIp
    <3>2. SockAgrees(SockAddrImpl(ipImplPtr[x], p), Endpoint(hosts[x], p))
      BY <1>2, AddressesAssumption DEF SockAgrees
    <3> QED
      BY <3>1, <3>2
  <2> QED
    BY <2>1, <2>2
<1>5. SockAgrees(sa, e)
  BY <1>4 DEF IInv, SocksAgree
<1>6. SocksAgree'
  BY <1>4, <1>5 DEF IInv, TypeOK, SocksAgree
<1>7. SockTypes(sa, e)
  BY <1>5, AgreeingTypes
<1>8. TypeOK'
  BY <1>1, <1>4, <1>7 DEF IInv, TypeOK, SockTypes
<1> QED
  BY <1>3, <1>6, <1>8 DEF IInv

LEMMA GetIpAddressKeeps ==
    ASSUME IInv, NEW x \in IpVars, NEW s \in SockVars, GetIpAddress(x, s)
    PROVE  IInv'
<1>1. PICK ip \in IpImpls, p \in PortNumbers :
         implPtr[s] = SockAddrImpl(ip, p) /\ endpoints[s] = Endpoint(HostOf(ip), p)
  BY HeldSock DEF GetIpAddress
<1>2. CASE PutIp(x, copy(implPtr[s].ipAddr), endpoints[s].host)
  <2>1. copy(implPtr[s].ipAddr) = ip /\ endpoints[s].host = HostOf(ip)
    BY <1>1, Kinds DEF SockAddrImpl, Endpoint
  <2>2. IpAgrees(copy(implPtr[s].ipAddr), endpoints[s].host)
    BY <2>1 DEF IpAgrees
  <2> QED
    BY <1>2, <2>2, PutIpKeeps
<1>3. CASE terminated' = TRUE /\ UNCHANGED <<ipVars, sockVars>>
  BY <1>3 DEF IInv, TypeOK, IpsAgree, SocksAgree, ipVars, sockVars
<1> QED
  BY <1>2, <1>3 DEF GetIpAddress

LEMMA StepKeeps == IInv /\ [Next]_vars => IInv'
<1> SUFFICES ASSUME IInv, [Next]_vars PROVE IInv'
  OBVIOUS
<1>1. CASE UNCHANGED vars
  BY <1>1, StutterKeeps
<1>2. CASE \E x \in IpVars :
             \/ DefaultIp(x) \/ MakeIp(x) \/ MakeIpv4(x) \/ MakeIpv6(x)
             \/ DestroyIp(x)
  BY <1>2, IpStepKeeps
<1>3. CASE \E x, y \in IpVars :
             CopyIp(x, y) \/ CopyAssignIp(x, y) \/ MoveIp(x, y) \/ SwapIp(x, y)
  BY <1>3, IpCopyKeeps, MoveIpKeeps, SwapIpKeeps
<1>4. CASE \E s \in SockVars :
             \/ DefaultSock(s) \/ MakeIpv4SockAddr(s) \/ MakeIpv6SockAddr(s)
             \/ MakeSockAddr(s) \/ DestroySock(s)
  BY <1>4, SockStepKeeps
<1>5. CASE \E s \in SockVars, x \in IpVars :
             SockFromIp(s, x) \/ SockFromMovedIp(s, x) \/ GetIpAddress(x, s)
  BY <1>5, SockFromIpKeeps, SockFromMovedIpKeeps, GetIpAddressKeeps
<1>6. CASE \E s, r \in SockVars :
             \/ CopySock(s, r) \/ CopyAssignSock(s, r)
             \/ MoveSock(s, r) \/ SwapSock(s, r)
  BY <1>6, SockCopyKeeps, MoveSockKeeps, SwapSockKeeps
<1> QED
  BY <1>1, <1>2, <1>3, <1>4, <1>5, <1>6 DEF Next

\* Every object agrees with what the program means, whatever happened to it.
THEOREM ObjectsAgree == Spec => []IInv
  BY InitHolds, StepKeeps, PTL DEF Spec

-----------------------------------------------------------------------------
\* The classes keep their types; ports stay within 16 bits.
THEOREM TypeCorrect == Spec => []TypeOK
<1>1. IInv => TypeOK
  BY DEF IInv
<1> QED
  BY <1>1, ObjectsAgree, PTL

\* bind and connect tell the kernel what the program means by an address, for
\* every host, port and label, after any calls and any failures among them.
THEOREM KernelIsTold == Spec => []ToldAsMeant
<1>1. ASSUME IInv, NEW s \in SockVars
      PROVE  NamesEndpoint(implPtr[s], endpoints[s])
  <2>1. CASE implPtr[s] \in {NULL, NONE}
    <3>1. SockAddrImpls \cap {NULL, NONE} = {}
      BY AddressesAssumption
    <3>2. \A ip \in IpImpls, p \in PortNumbers : SockAddrImpl(ip, p) \in SockAddrImpls
      BY DEF SockAddrImpl, SockAddrImpls
    <3>3. endpoints[s] = implPtr[s]
      BY <1>1, <2>1, <3>1, <3>2 DEF IInv, SocksAgree, SockAgrees
    <3> QED
      BY <2>1, <3>3 DEF NamesEndpoint
  <2>2. CASE implPtr[s] \notin {NULL, NONE}
    <3>1. PICK ip \in IpImpls, p \in PortNumbers :
             implPtr[s] = SockAddrImpl(ip, p) /\ endpoints[s] = Endpoint(HostOf(ip), p)
      BY <1>1, <2>2 DEF IInv, SocksAgree, SockAgrees
    <3>2. Reading(implPtr[s]) = {endpoints[s]}
      BY <3>1, KernelReads
    <3> QED
      BY <2>2, <3>2 DEF NamesEndpoint, Reading
  <2> QED
    BY <2>1, <2>2
<1>2. ASSUME IInv, NEW x \in IpVars
      PROVE  NamesHost(ipImplPtr[x], hosts[x])
  <2>1. IpAgrees(ipImplPtr[x], hosts[x])
    BY <1>2 DEF IInv, IpsAgree
  <2>2. IpImpls \cap {NULL, NONE} = {}
    BY AddressesAssumption
  <2> QED
    BY <2>1, <2>2, StorageOfHost DEF IpAgrees, NamesHost
<1>3. IInv => ToldAsMeant
  BY <1>1, <1>2 DEF ToldAsMeant
<1> QED
  BY <1>3, ObjectsAgree, PTL

\* An address survives the way through a sockaddr_storage and back.
THEOREM StorageRoundTrip == Spec => []RoundTrip
<1>1. ASSUME IInv, NEW s \in SockVars, implPtr[s] \notin {NULL, NONE}
      PROVE  makeSockAddr(getSockaddrStorage(implPtr[s])) = {implPtr[s]}
  <2>1. PICK ip \in IpImpls, p \in PortNumbers : implPtr[s] = SockAddrImpl(ip, p)
    BY <1>1 DEF IInv, SocksAgree, SockAgrees
  <2>2. getSockaddrStorage(implPtr[s]) = makeSockaddrStorage(ip, p)
    BY <2>1 DEF getSockaddrStorage, SockAddrImpl
  <2>3. makeTcpPort(makeSockaddrStorage(ip, p)) = {p}
    BY ExchangedTwice DEF makeTcpPort, makeSockaddrStorage, toNetworkByteOrder
  <2>4. makeIpImpl(makeSockaddrStorage(ip, p)) = {ip}
    BY Kinds DEF makeIpImpl, makeSockaddrStorage
  <2> QED
    BY <2>1, <2>2, <2>3, <2>4 DEF makeSockAddr
<1>2. IInv => RoundTrip
  BY <1>1 DEF RoundTrip
<1> QED
  BY <1>2, ObjectsAgree, PTL
=============================================================================
