----------------------- MODULE IPCThreadState_proofs -----------------------
(***************************************************************************)
(* Proofs about libbinder's per-process and per-thread state, for any       *)
(* number of threads, handles and drivers and without the bound on work.    *)
(***************************************************************************)
EXTENDS IPCThreadState, TLAPS

(* The ProcessStates that exist: the driver of the current one, and of any  *)
(* that a thread still has, was not closed.                                 *)
DriverKept ==
  /\ processes \in Seq({"open", "none", "closed"})
  /\ gProcess \in 0 .. Len(processes)
  /\ mProcess \in [Threads -> 0 .. Len(processes)]
  /\ gProcess # 0 => processes[gProcess] # "closed"
  /\ \A t \in Threads : mProcess[t] # 0 => processes[mProcess[t]] # "closed"

Steps == {"user", "self", "lock", "locked", "get", "write", "talk", "dead", "gone"}

(* gHaveTLS says whether the key is made, a thread that goes for its value  *)
(* has seen that it is, and a thread for which a state was made has it      *)
(* still, or is no more.                                                    *)
StateKept ==
  /\ gHaveTLS \in BOOLEAN
  /\ gTLS = IF gHaveTLS THEN 1 ELSE 0
  /\ tls \in [Threads -> {0, 1}]
  /\ made \in [Threads -> {0, 1}]
  /\ pc \in [Threads -> Steps]
  /\ \A t \in Threads :
       /\ pc[t] = "get" => gHaveTLS
       /\ made[t] = 1 => tls[t] = 1 \/ pc[t] \in {"gone", "dead"}

IInv == DriverKept /\ StateKept

-----------------------------------------------------------------------------
LEMMA InitIInv == Init => IInv
<1>. SUFFICES ASSUME Init PROVE IInv
  OBVIOUS
<1>1. DriverKept
  <2>1. processes = <<>> /\ gProcess = 0 /\ mProcess = [t \in Threads |-> 0]
    BY DEF Init
  <2>2. processes \in Seq({"open", "none", "closed"}) /\ Len(processes) = 0
    BY <2>1
  <2>. QED  BY <2>1, <2>2 DEF DriverKept
<1>2. StateKept
  BY DEF Init, StateKept, Steps
<1>. QED  BY <1>1, <1>2 DEF IInv

(* A new ProcessState takes nobody's driver away.                           *)
LEMMA NewKeepsDrivers ==
  ASSUME DriverKept, NEW fd \in {"open", "none"}, processes' = Append(processes, fd),
         gProcess' = Len(processes) + 1, UNCHANGED mProcess
  PROVE  DriverKept'
<1>1. /\ processes' \in Seq({"open", "none", "closed"})
      /\ Len(processes') = Len(processes) + 1
      /\ processes'[Len(processes) + 1] = fd
      /\ \A p \in 1 .. Len(processes) : processes'[p] = processes[p]
  BY DEF DriverKept
<1>. QED  BY <1>1 DEF DriverKept

(* Releasing one that has no users and is not current closes no driver      *)
(* that is still wanted.                                                    *)
LEMMA ReleaseKeepsDrivers ==
  ASSUME NEW ps \in Seq({"open", "none", "closed"}), NEW current \in 0 .. Len(ps),
         NEW users \in [Threads -> 0 .. Len(ps)], NEW p \in 0 .. Len(ps),
         current # 0 => ps[current] # "closed",
         \A t \in Threads : users[t] # 0 => ps[users[t]] # "closed",
         NEW U, \A t \in Threads : users[t] = p => t \in U
  PROVE  LET rs == Released(ps, p, current, U) IN
         /\ rs \in Seq({"open", "none", "closed"}) /\ Len(rs) = Len(ps)
         /\ current # 0 => rs[current] # "closed"
         /\ \A t \in Threads : users[t] # 0 => rs[users[t]] # "closed"
<1>1. CASE p # 0 /\ p # current /\ U = {}
  <2>1. Released(ps, p, current, U) = [ps EXCEPT ![p] = "closed"]
    BY <1>1 DEF Released
  <2>2. \A t \in Threads : users[t] # p
    BY <1>1
  <2>. QED  BY <1>1, <2>1, <2>2
<1>2. CASE ~(p # 0 /\ p # current /\ U = {})
  BY <1>2 DEF Released
<1>. QED  BY <1>1, <1>2

LEMMA NextDriverKept == DriverKept /\ [Next]_vars => DriverKept'
<1>. SUFFICES ASSUME DriverKept, [Next]_vars PROVE DriverKept'
  OBVIOUS
<1>0. CASE UNCHANGED <<processes, gProcess, mProcess>>
  BY <1>0 DEF DriverKept
<1>1. ASSUME NEW t \in Threads, ProcessStateSelf(t) PROVE DriverKept'
  <2>1. PICK fd \in {"open", "none"} : processes' = Append(processes, fd)
    BY <1>1 DEF ProcessStateSelf
  <2>2. gProcess' = Len(processes) + 1 /\ UNCHANGED mProcess
    BY <1>1 DEF ProcessStateSelf, NewProcessState, svars
  <2>. QED  BY <2>1, <2>2, NewKeepsDrivers
<1>2. ASSUME NEW t \in Threads, NEW d \in Drivers, InitWithDriver(t, d) PROVE DriverKept'
  <2>1. PICK fd \in {"open", "none"} :
          processes' = Released(Append(processes, fd), gProcess, gProcess', UsersOf(gProcess))
    BY <1>2 DEF InitWithDriver
  <2>2. gProcess' = Len(processes) + 1 /\ UNCHANGED mProcess
    BY <1>2 DEF InitWithDriver, NewProcessState, svars
  <2> DEFINE ps == Append(processes, fd)
  <2>3. /\ ps \in Seq({"open", "none", "closed"})
        /\ Len(ps) = Len(processes) + 1
        /\ ps[Len(processes) + 1] = fd
        /\ \A p \in 1 .. Len(processes) : ps[p] = processes[p]
    BY DEF DriverKept
  <2>4. /\ gProcess' \in 0 .. Len(ps) /\ ps[gProcess'] # "closed"
        /\ mProcess \in [Threads -> 0 .. Len(ps)]
        /\ gProcess \in 0 .. Len(ps)
        /\ \A u \in Threads : mProcess[u] # 0 => ps[mProcess[u]] # "closed"
    BY <2>2, <2>3 DEF DriverKept
  <2>5. \A u \in Threads : mProcess[u] = gProcess => u \in UsersOf(gProcess)
    BY DEF UsersOf
  <2>. HIDE DEF ps
  <2>6. LET rs == Released(ps, gProcess, gProcess', UsersOf(gProcess)) IN
        /\ rs \in Seq({"open", "none", "closed"}) /\ Len(rs) = Len(ps)
        /\ gProcess' # 0 => rs[gProcess'] # "closed"
        /\ \A u \in Threads : mProcess[u] # 0 => rs[mProcess[u]] # "closed"
    BY <2>3, <2>4, <2>5, ReleaseKeepsDrivers
  <2>7. processes' = Released(ps, gProcess, gProcess', UsersOf(gProcess))
    BY <2>1 DEF ps
  <2>. QED  BY <2>2, <2>3, <2>4, <2>6, <2>7 DEF DriverKept
<1>3. ASSUME NEW t \in Threads, GetState(t) PROVE DriverKept'
  BY <1>3 DEF GetState, DriverKept, pvars, svars
<1>4. ASSUME NEW t \in Threads, ExitThread(t) PROVE DriverKept'
  <2> DEFINE left == [mProcess EXCEPT ![t] = 0]
             U == UsersOf(mProcess[t]) \ {t}
  <2>1. /\ processes' = Released(processes, mProcess[t], gProcess, U)
        /\ mProcess' = left /\ UNCHANGED gProcess
    BY <1>4 DEF ExitThread
  <2>2. /\ left \in [Threads -> 0 .. Len(processes)]
        /\ \A u \in Threads : left[u] # 0 => processes[left[u]] # "closed"
        /\ mProcess[t] \in 0 .. Len(processes)
    BY DEF DriverKept
  <2>3. \A u \in Threads : u # t /\ left[u] = mProcess[t] => u \in U
    BY DEF DriverKept, UsersOf
  <2>4. CASE mProcess[t] = 0
    BY <2>1, <2>2, <2>4 DEF DriverKept, Released
  <2>5. CASE mProcess[t] # 0
    <3>1. \A u \in Threads : left[u] = mProcess[t] => u \in U
      BY <2>3, <2>5 DEF DriverKept
    <3>. HIDE DEF left, U
    <3>2. LET rs == Released(processes, mProcess[t], gProcess, U) IN
          /\ rs \in Seq({"open", "none", "closed"}) /\ Len(rs) = Len(processes)
          /\ gProcess # 0 => rs[gProcess] # "closed"
          /\ \A u \in Threads : left[u] # 0 => rs[left[u]] # "closed"
      BY <2>2, <3>1, ReleaseKeepsDrivers DEF DriverKept
    <3>. QED  BY <2>1, <2>2, <3>2 DEF DriverKept
  <2>. QED  BY <2>4, <2>5
<1>5. ASSUME NEW t \in Threads, Step(t), ~GetState(t) PROVE DriverKept'
  BY <1>5, <1>0 DEF Step, Self, LockTLS, MakeKey, WriteTransactionData, DataError,
     TalkWithDriver, pvars, svars
<1>6. ASSUME NEW t \in Threads,
             \/ \E h \in Handles : GetStrongProxyForHandle(t, h)
             \/ \E u \in Threads : Share(t, u)
             \/ Drop(t) \/ Call(t)
      PROVE DriverKept'
  BY <1>6, <1>0 DEF GetStrongProxyForHandle, Share, Drop, Call, pvars, svars
<1>7. ASSUME (\E p \in DOMAIN proxies : Destroyed(p)) \/ ManagerAppears PROVE DriverKept'
  BY <1>7, <1>0 DEF Destroyed, ManagerAppears, pvars, svars
<1>8. CASE UNCHANGED vars
  BY <1>8, <1>0 DEF vars, pvars, svars
<1>. QED  BY <1>1, <1>2, <1>3, <1>4, <1>5, <1>6, <1>7, <1>8 DEF Next

LEMMA NextStateKept == StateKept /\ [Next]_vars => StateKept'
<1>. SUFFICES ASSUME StateKept, [Next]_vars PROVE StateKept'
  OBVIOUS
<1>. USE DEF StateKept, Steps
<1>0. CASE UNCHANGED <<pc, tls, made, gTLS, gHaveTLS>>
  BY <1>0
<1>1. ASSUME NEW t \in Threads, MakeKey(t) PROVE StateKept'
  <2>1. UNCHANGED <<tls, made>> /\ pc[t] = "locked"
    BY <1>1 DEF MakeKey, svars
  <2>2. CASE gHaveTLS /\ Goto(t, "get") /\ UNCHANGED <<gTLS, gHaveTLS>>
    BY <2>1, <2>2 DEF Goto
  <2>3. CASE ~gHaveTLS /\ gTLS' = gTLS + 1 /\ gHaveTLS' = TRUE /\ Goto(t, "get")
    BY <2>1, <2>3 DEF Goto
  <2>4. CASE Crash /\ UNCHANGED <<gTLS, gHaveTLS>>
    BY <2>1, <2>4 DEF Crash
  <2>. QED  BY <1>1, <2>2, <2>3, <2>4 DEF MakeKey, CreateKey
<1>2. ASSUME NEW t \in Threads, GetState(t) PROVE StateKept'
  <2>1. /\ pc[t] = "get" /\ Goto(t, "write") /\ UNCHANGED <<gTLS, gHaveTLS>>
        /\ gHaveTLS /\ gTLS = 1
    BY <1>2 DEF GetState, At, kvars
  <2>2. CASE tls[t] = 1
    BY <1>2, <2>1, <2>2 DEF GetState, svars, Goto
  <2>3. CASE tls[t] # 1
    <3>1. /\ tls' = [tls EXCEPT ![t] = 1]
          /\ made' = [made EXCEPT ![t] = @ + 1]
      BY <1>2, <2>1, <2>3 DEF GetState
    <3>2. made[t] = 0
      BY <2>1, <2>3
    <3>. QED  BY <2>1, <3>1, <3>2 DEF Goto
  <2>. QED  BY <2>2, <2>3
<1>3. ASSUME NEW t \in Threads, ExitThread(t) PROVE StateKept'
  BY <1>3 DEF ExitThread, At, Goto, kvars
<1>4. ASSUME NEW t \in Threads, Self(t) PROVE StateKept'
  BY <1>4 DEF Self, Goto, kvars, svars
<1>5. ASSUME NEW t \in Threads, LockTLS(t) \/ DataError(t) \/ Call(t) PROVE StateKept'
  BY <1>5 DEF LockTLS, DataError, Call, At, Goto, kvars, svars
<1>6. ASSUME NEW t \in Threads, WriteTransactionData(t) PROVE StateKept'
  BY <1>6 DEF WriteTransactionData, At, Goto, kvars
<1>7. ASSUME NEW t \in Threads, TalkWithDriver(t) PROVE StateKept'
  <2>1. pc[t] = "talk" /\ UNCHANGED <<gTLS, gHaveTLS, tls, made>>
    BY <1>7 DEF TalkWithDriver, kvars, svars
  <2>2. Goto(t, "user") \/ UNCHANGED pc \/ Goto(t, "dead")
    BY <1>7 DEF TalkWithDriver, IoctlWriteRead, Return
  <2>. QED  BY <2>1, <2>2 DEF Goto
<1>8. ASSUME NEW t \in Threads,
             \/ ProcessStateSelf(t) \/ \E d \in Drivers : InitWithDriver(t, d)
             \/ \E h \in Handles : GetStrongProxyForHandle(t, h)
             \/ \E u \in Threads : Share(t, u)
             \/ Drop(t)
      PROVE StateKept'
  BY <1>8, <1>0 DEF ProcessStateSelf, InitWithDriver, GetStrongProxyForHandle, Share, Drop,
     kvars, svars
<1>9. ASSUME (\E p \in DOMAIN proxies : Destroyed(p)) \/ ManagerAppears PROVE StateKept'
  BY <1>9, <1>0 DEF Destroyed, ManagerAppears, kvars, svars
<1>10. CASE UNCHANGED vars
  BY <1>10, <1>0 DEF vars, kvars, svars
<1>. QED  BY <1>1, <1>2, <1>3, <1>4, <1>5, <1>6, <1>7, <1>8, <1>9, <1>10 DEF Next, Step

(* However the first calls of the threads interleave, with initWithDriver   *)
(* and with threads that end, the process makes one key, a thread gets one  *)
(* IPCThreadState, and its driver is not closed while it has it.            *)
THEOREM OneStateHolds == Spec => []OneState
<1>1. IInv => OneState
  BY DEF IInv, DriverKept, StateKept, OneState
<1>2. IInv /\ [Next]_vars => IInv'
  BY NextDriverKept, NextStateKept DEF IInv
<1>. QED  BY InitIInv, <1>1, <1>2, PTL DEF Spec

-----------------------------------------------------------------------------
(* The proxies. Slot 0 is the only one in use, so that under one            *)
(* ProcessState there is one live proxy, whatever the handles.              *)
Proxies == [of : Nat, handle : Handles, life : {"live", "dying", "freed"}, weak : Nat]

ProxyTypes ==
  /\ processes \in Seq({"open", "none", "closed"}) /\ gProcess = Len(processes)
  /\ proxies \in Seq(Proxies)
  /\ table \in Seq(0 .. Len(proxies))
  /\ held \in [Threads -> 0 .. Len(proxies)]

Live(p) == proxies[p].life = "live"

ProxyKept ==
  /\ \A p \in DOMAIN proxies :
       /\ proxies[p].of \in 1 .. gProcess
       /\ Live(p) => \E t \in Threads : held[t] = p
       /\ Live(p) /\ proxies[p].of = gProcess => Len(table) > 0 /\ table[1] = p
       /\ \A q \in DOMAIN proxies :
            Live(p) /\ Live(q) /\ proxies[p].of = proxies[q].of => p = q
  /\ \A t \in Threads : held[t] # 0 => Live(held[t])

PInv == ProxyTypes /\ ProxyKept

LEMMA InitPInv == Init => PInv
<1> SUFFICES ASSUME Init  PROVE PInv  OBVIOUS
<1>1. /\ processes = <<>> /\ proxies = <<>> /\ table = <<>> /\ gProcess = 0
      /\ held = [t \in Threads |-> 0]
  BY DEF Init
<1>2. processes \in Seq({"open", "none", "closed"}) /\ Len(processes) = 0  BY <1>1
<1>3. proxies \in Seq(Proxies) /\ Len(proxies) = 0 /\ DOMAIN proxies = {}  BY <1>1
<1>4. table \in Seq(0 .. Len(proxies))  BY <1>1
<1>5. ProxyTypes  BY <1>1, <1>2, <1>3, <1>4 DEF ProxyTypes
<1>6. ProxyKept  BY <1>1, <1>3 DEF ProxyKept
<1> QED  BY <1>5, <1>6 DEF PInv

LEMMA GrownTable ==
  ASSUME NEW n \in Nat, NEW tab \in Seq(0 .. n), NEW h \in Handles
  PROVE  /\ Grown(tab, h) \in Seq(0 .. n) /\ Len(Grown(tab, h)) > 0
         /\ Grown(tab, h)[1] = IF Len(tab) > 0 THEN tab[1] ELSE 0
<1>1. PICK m \in Nat \ {0} : m = IF Len(tab) <= h THEN h + 1 ELSE Len(tab)
  BY IPCConstants
<1>2. Grown(tab, h) = [i \in 1 .. m |-> IF i <= Len(tab) THEN tab[i] ELSE 0]
  BY <1>1 DEF Grown
<1>3. \A i \in 1 .. m : (IF i <= Len(tab) THEN tab[i] ELSE 0) \in 0 .. n
  OBVIOUS
<1> QED  BY <1>2, <1>3

(* A new ProcessState has no proxy yet.                                     *)
LEMMA NewProcessKeepsProxies ==
  ASSUME PInv, processes' \in Seq({"open", "none", "closed"}),
         gProcess' = Len(processes) + 1, Len(processes') = Len(processes) + 1,
         UNCHANGED <<proxies, held>>, table' \in {table, <<>>}
  PROVE  PInv'
<1>1. \A p \in DOMAIN proxies : proxies[p].of # gProcess' /\ proxies[p].of \in 1 .. gProcess'
  BY DEF PInv, ProxyTypes, ProxyKept
<1>2. table' \in Seq(0 .. Len(proxies))
  <2>1. <<>> \in Seq(0 .. Len(proxies))  OBVIOUS
  <2> QED  BY <2>1 DEF PInv, ProxyTypes
<1> QED  BY <1>1, <1>2 DEF PInv, ProxyTypes, ProxyKept, Live

LEMMA ReleasedLength ==
  ASSUME NEW ps \in Seq({"open", "none", "closed"}), NEW p, NEW current, NEW users
  PROVE  /\ Released(ps, p, current, users) \in Seq({"open", "none", "closed"})
         /\ Len(Released(ps, p, current, users)) = Len(ps)
BY DEF Released

LEMMA CreateKeepsProxies ==
  ASSUME PInv, NEW t \in Threads, NEW h \in Handles, gProcess # 0, held[t] = 0,
         \A p \in DOMAIN proxies : ~(Live(p) /\ proxies[p].of = gProcess),
         CreateProxy(t, h), UNCHANGED pvars
  PROVE  PInv'
<1> USE DEF PInv, pvars
<1>0. PICK n, new : /\ n = Len(proxies) + 1
                    /\ new = [of |-> gProcess, handle |-> h, life |-> "live", weak |-> 0]
  OBVIOUS
<1>1. new \in Proxies /\ n \in Nat \ {0}
  BY <1>0 DEF ProxyTypes, Proxies
<1>2. /\ proxies' \in Seq(Proxies) /\ Len(proxies') = n
      /\ proxies'[n] = new
      /\ \A p \in DOMAIN proxies : proxies'[p] = proxies[p]
      /\ DOMAIN proxies' = DOMAIN proxies \cup {n} /\ n \notin DOMAIN proxies
  BY <1>0, <1>1 DEF CreateProxy, ProxyTypes
<1>3. PICK tab : tab = Grown(table, h)  OBVIOUS
<1>4. tab \in Seq(0 .. n) /\ Len(tab) > 0
  <2>1. table \in Seq(0 .. n)  BY <1>0 DEF ProxyTypes
  <2> QED  BY <1>1, <1>3, <2>1, GrownTable
<1>5. table' \in Seq(0 .. n) /\ Len(table') > 0 /\ table'[1] = n
  <2>1. table' = [tab EXCEPT ![1] = n]  BY <1>0, <1>3 DEF CreateProxy
  <2> QED  BY <1>1, <1>4, <2>1
<1>6. /\ held' \in [Threads -> 0 .. n] /\ held'[t] = n
      /\ \A u \in Threads \ {t} : held'[u] = held[u]
  BY <1>0, <1>1 DEF CreateProxy, ProxyTypes
<1>7. ProxyTypes'  BY <1>2, <1>5, <1>6 DEF ProxyTypes
<1>8. new.of = gProcess /\ new.life = "live" /\ gProcess \in 1 .. gProcess
  BY <1>0 DEF ProxyTypes
<1>9. \A p \in DOMAIN proxies : Live(p)' <=> Live(p)  BY <1>2 DEF Live
<1>10. Live(n)'  BY <1>2, <1>8 DEF Live
<1>11. ASSUME NEW p \in DOMAIN proxies'
       PROVE  /\ proxies'[p].of \in 1 .. gProcess'
              /\ Live(p)' => \E u \in Threads : held'[u] = p
              /\ Live(p)' /\ proxies'[p].of = gProcess' => Len(table') > 0 /\ table'[1] = p
              /\ \A q \in DOMAIN proxies' :
                   Live(p)' /\ Live(q)' /\ proxies'[p].of = proxies'[q].of => p = q
  <2>1. CASE p = n
    <3>1. \A q \in DOMAIN proxies : Live(q)' => proxies'[q].of # gProcess
      BY <1>2, <1>9
    <3> QED  BY <1>2, <1>5, <1>6, <1>8, <2>1, <3>1
  <2>2. CASE p # n
    <3>1. p \in DOMAIN proxies /\ p # 0  BY <1>2, <2>2 DEF ProxyTypes
    <3>2. Live(p)' => \E u \in Threads : held'[u] = p
      BY <1>6, <1>9, <3>1 DEF ProxyKept
    <3> QED  BY <1>2, <1>8, <1>9, <3>1, <3>2 DEF ProxyKept
  <2> QED  BY <2>1, <2>2
<1>12. \A u \in Threads : held'[u] # 0 => proxies'[held'[u]].life = "live"
  <2>1. \A u \in Threads : held[u] # 0 => held[u] \in DOMAIN proxies /\ Live(held[u])
    BY DEF ProxyTypes, ProxyKept
  <2> QED  BY <1>2, <1>6, <1>8, <2>1 DEF Live
<1>13. ProxyKept'  BY <1>11, <1>12 DEF ProxyKept, Live
<1> QED  BY <1>7, <1>13

(* A step that changes neither who lives nor what names them.               *)
LEMMA OldProxiesStay ==
  ASSUME PInv, UNCHANGED pvars, UNCHANGED held,
         proxies' \in Seq(Proxies), Len(proxies') = Len(proxies),
         \A p \in DOMAIN proxies : proxies'[p].of = proxies[p].of /\ (Live(p)' <=> Live(p)),
         table' \in Seq(0 .. Len(proxies)),
         Len(table) > 0 => Len(table') > 0 /\ table'[1] = table[1]
  PROVE  PInv'
<1>1. DOMAIN proxies' = DOMAIN proxies  BY DEF PInv, ProxyTypes
<1>2. ProxyTypes'  BY DEF PInv, ProxyTypes, pvars
<1>3. \A t \in Threads : held[t] # 0 => held[t] \in DOMAIN proxies  BY DEF PInv, ProxyTypes
<1> QED  BY <1>1, <1>2, <1>3 DEF PInv, ProxyKept, pvars

LEMMA LookupKeepsProxies ==
  ASSUME PInv, NEW t \in Threads, NEW h \in Handles, GetStrongProxyForHandle(t, h)
  PROVE  PInv'
<1> USE DEF PInv
<1>1. gProcess # 0 /\ held[t] = 0 /\ UNCHANGED pvars /\ Got(t, h)
  BY DEF GetStrongProxyForHandle
<1>2. /\ Grown(table, h) \in Seq(0 .. Len(proxies)) /\ Len(Grown(table, h)) > 0
      /\ Entry(table, h) = IF Len(table) > 0 THEN table[1] ELSE 0
  BY GrownTable DEF ProxyTypes, Entry
<1>3. ASSUME NEW p \in DOMAIN proxies, Live(p), proxies[p].of = gProcess
      PROVE  Entry(table, h) = p /\ p # 0
  BY <1>2, <1>3 DEF ProxyKept, ProxyTypes
<1>4. CASE CreateProxy(t, h) /\ (Entry(table, h) = 0 \/ proxies[Entry(table, h)].life = "freed")
  BY <1>1, <1>3, <1>4, CreateKeepsProxies DEF Live
<1>5. CASE table' = Grown(table, h) /\ UNCHANGED <<held, proxies>>
  BY <1>1, <1>2, <1>5, OldProxiesStay DEF ProxyTypes, Entry, Live
<1>6. CASE /\ table' = Grown(table, h) /\ UNCHANGED held /\ Entry(table, h) # 0
           /\ proxies' = [proxies EXCEPT ![Entry(table, h)].weak = @ + 1]
  <2>1. PICK p \in DOMAIN proxies : p = Entry(table, h) /\ proxies[p] \in Proxies
    BY <1>2, <1>6 DEF ProxyTypes
  <2>2. proxies' = [proxies EXCEPT ![p] = [proxies[p] EXCEPT !.weak = @ + 1]]
    BY <1>6, <2>1
  <2>3. PICK x : x = [proxies[p] EXCEPT !.weak = @ + 1]  OBVIOUS
  <2>4. x \in Proxies /\ x.of = proxies[p].of /\ x.life = proxies[p].life
    BY <2>1, <2>3 DEF Proxies
  <2>5. /\ proxies' \in Seq(Proxies) /\ Len(proxies') = Len(proxies)
        /\ \A q \in DOMAIN proxies : proxies'[q].of = proxies[q].of /\ (Live(q)' <=> Live(q))
    BY <2>2, <2>3, <2>4 DEF ProxyTypes, Live
  <2> QED  BY <1>1, <1>2, <1>6, <2>5, OldProxiesStay DEF Entry
<1> QED  BY <1>1, <1>4, <1>5, <1>6 DEF Got

LEMMA DropKeepsProxies ==
  ASSUME PInv, NEW t \in Threads, Drop(t)
  PROVE  PInv'
<1> USE DEF PInv
<1>1. PICK p \in DOMAIN proxies : p = held[t] /\ p # 0 /\ proxies[p] \in Proxies
  BY DEF Drop, ProxyTypes
<1>2. /\ held' = [held EXCEPT ![t] = 0] /\ UNCHANGED <<pvars, table>>
      /\ held' \in [Threads -> 0 .. Len(proxies)]
  BY DEF Drop, ProxyTypes
<1>3. CASE (\E u \in Threads \ {t} : held[u] = p) /\ proxies' = proxies
  BY <1>1, <1>2, <1>3 DEF ProxyTypes, ProxyKept, Live, pvars
<1>4. CASE /\ ~\E u \in Threads \ {t} : held[u] = p
           /\ proxies' = [proxies EXCEPT ![p].life = "dying"]
  <2>1. PICK x : x = [proxies[p] EXCEPT !.life = "dying"]  OBVIOUS
  <2>2. x \in Proxies /\ x.of = proxies[p].of /\ x.life = "dying"
    BY <1>1, <2>1 DEF Proxies
  <2>0. proxies' = [proxies EXCEPT ![p] = x]  BY <1>4, <2>1
  <2>3. /\ proxies' \in Seq(Proxies) /\ Len(proxies') = Len(proxies)
        /\ DOMAIN proxies' = DOMAIN proxies /\ ~Live(p)'
        /\ \A q \in DOMAIN proxies : proxies'[q].of = proxies[q].of /\ (Live(q)' => Live(q))
        /\ \A q \in DOMAIN proxies \ {p} : Live(q)' <=> Live(q)
    BY <2>0, <2>2 DEF ProxyTypes, Live
  <2>4. ProxyTypes'  BY <1>2, <2>3 DEF ProxyTypes, pvars
  <2>5. \A q \in DOMAIN proxies : Live(q)' => \E u \in Threads : held'[u] = q
    BY <1>1, <1>2, <2>3 DEF ProxyTypes, ProxyKept
  <2>6. \A u \in Threads : held'[u] # 0 => proxies'[held'[u]].life = "live"
    <3>1. \A u \in Threads : held'[u] # 0 => /\ held'[u] = held[u] /\ held[u] # p
                                            /\ held[u] \in DOMAIN proxies /\ Live(held[u])
      BY <1>1, <1>2, <1>4 DEF ProxyTypes, ProxyKept
    <3> QED  BY <2>3, <3>1 DEF Live
  <2>7. ProxyKept'
    BY <1>2, <2>3, <2>5, <2>6 DEF ProxyKept, pvars, Live
  <2> QED  BY <2>4, <2>7
<1> QED  BY <1>1, <1>3, <1>4 DEF Drop

LEMMA DestroyedKeepsProxies ==
  ASSUME PInv, NEW p \in DOMAIN proxies, Destroyed(p)
  PROVE  PInv'
<1> USE DEF PInv
<1>0. proxies[p] \in Proxies  BY DEF ProxyTypes
<1>1. PICK x : x = [proxies[p] EXCEPT !.life = "freed"]  OBVIOUS
<1>2. x \in Proxies /\ x.of = proxies[p].of /\ x.life = "freed"
  BY <1>0, <1>1 DEF Proxies
<1>3. proxies' = [proxies EXCEPT ![p] = x] /\ ~Live(p)  BY <1>1 DEF Destroyed, Live
<1>4. /\ proxies' \in Seq(Proxies) /\ Len(proxies') = Len(proxies)
      /\ \A q \in DOMAIN proxies : proxies'[q].of = proxies[q].of /\ (Live(q)' <=> Live(q))
  BY <1>2, <1>3 DEF ProxyTypes, Live
<1> QED  BY <1>4, OldProxiesStay DEF Destroyed, ProxyTypes

LEMMA NextPInv == PInv /\ [Next]_vars => PInv'
<1> SUFFICES ASSUME PInv, [Next]_vars  PROVE PInv'  OBVIOUS
<1>0. CASE UNCHANGED <<processes, gProcess, proxies, table, held>>
  BY <1>0 DEF PInv, ProxyTypes, ProxyKept, Live
<1>1. ASSUME NEW t \in Threads, ProcessStateSelf(t)  PROVE PInv'
  <2>1. PICK fd \in {"open", "none"} : processes' = Append(processes, fd)
    BY <1>1 DEF ProcessStateSelf
  <2>2. processes' \in Seq({"open", "none", "closed"}) /\ Len(processes') = Len(processes) + 1
    BY <2>1 DEF PInv, ProxyTypes
  <2> QED
    BY <1>1, <2>2, NewProcessKeepsProxies DEF ProcessStateSelf, NewProcessState, hvars
<1>2. ASSUME NEW t \in Threads, NEW d \in Drivers, InitWithDriver(t, d)  PROVE PInv'
  <2>1. PICK fd \in {"open", "none"} :
          processes' = Released(Append(processes, fd), gProcess, gProcess', UsersOf(gProcess))
    BY <1>2 DEF InitWithDriver
  <2>2. PICK ps : ps = Append(processes, fd)  OBVIOUS
  <2>3. ps \in Seq({"open", "none", "closed"}) /\ Len(ps) = Len(processes) + 1
    BY <2>2 DEF PInv, ProxyTypes
  <2>4. processes' \in Seq({"open", "none", "closed"}) /\ Len(processes') = Len(processes) + 1
    <3>1. processes' = Released(ps, gProcess, gProcess', UsersOf(gProcess))  BY <2>1, <2>2
    <3> QED  BY <2>3, <3>1, ReleasedLength
  <2> QED  BY <1>2, <2>4, NewProcessKeepsProxies DEF InitWithDriver, NewProcessState
<1>3. ASSUME NEW t \in Threads, ExitThread(t)  PROVE PInv'
  <2>1. processes' \in Seq({"open", "none", "closed"}) /\ Len(processes') = Len(processes)
    BY <1>3, ReleasedLength DEF ExitThread, PInv, ProxyTypes
  <2> QED
    BY <1>3, <2>1 DEF ExitThread, hvars, PInv, ProxyTypes, ProxyKept, Live
<1>4. ASSUME NEW t \in Threads, NEW u \in Threads, Share(t, u)  PROVE PInv'
  <2>1. held' = [held EXCEPT ![u] = held[t]] /\ held[t] # 0 /\ held[u] = 0
    BY <1>4 DEF Share
  <2>2. held' \in [Threads -> 0 .. Len(proxies)]  BY <2>1 DEF PInv, ProxyTypes
  <2>3. \A p \in DOMAIN proxies : Live(p) => \E v \in Threads : held'[v] = p
    BY <2>1 DEF PInv, ProxyTypes, ProxyKept
  <2> QED
    BY <1>4, <2>1, <2>2, <2>3 DEF Share, pvars, PInv, ProxyTypes, ProxyKept, Live
<1>5. ASSUME NEW t \in Threads, Step(t) \/ Call(t)  PROVE PInv'
  BY <1>5, <1>0 DEF Step, Call, Self, LockTLS, MakeKey, GetState, WriteTransactionData,
     DataError, TalkWithDriver, pvars, hvars
<1>6. CASE ManagerAppears \/ UNCHANGED vars
  BY <1>6, <1>0 DEF ManagerAppears, vars, pvars, hvars
<1> QED
  BY <1>1, <1>2, <1>3, <1>4, <1>5, <1>6, LookupKeepsProxies, DropKeepsProxies,
     DestroyedKeepsProxies DEF Next

(* Whatever threads look up handles, share and drop what they got, there is *)
(* no second live proxy of a handle, and the table names the live one of    *)
(* the current ProcessState (ProcessState.cpp:230).                         *)
THEOREM OneProxyLives == Spec => []OneProxy
<1>1. PInv => OneProxy  BY DEF PInv, ProxyKept, OneProxy, Live
<1> QED  BY <1>1, InitPInv, NextPInv, PTL DEF Spec

-----------------------------------------------------------------------------
(* The parcel of a thread. Its words are known by a key that grows from one *)
(* word of a transaction to the next and from one transaction to the next.  *)
Words == [txn : Nat, at : 0 .. TrWords]
Parcels == [data : Seq(Words), mDataSize : Nat, mDataCapacity : Nat,
            mError : {"NO_ERROR", "NO_MEMORY"}]

Key(word) == Stride * word.txn + word.at
Sized(p) == p.mDataSize = Word * Len(p.data) /\ p.mDataSize <= p.mDataCapacity
Ascending(s) == \A v, w \in DOMAIN s : v < w => Key(s[v]) < Key(s[w])
Below(s, n) == \A v \in DOMAIN s : Key(s[v]) < n
From(s, n) == \A v \in DOMAIN s : n <= Key(s[v])
Closed(S) == \A i \in S : \A j \in 1 .. i : j \in S

OutTypes ==
  /\ sent \in [Threads -> Seq(Handles)]
  /\ executed \in [Threads -> SUBSET Nat]
  /\ mOut \in [Threads -> Parcels]

(* A thread in a call holds its proxy and, once past self(), has its state; *)
(* one without a state has sent nothing, or is no more.                     *)
InCall == {"self", "lock", "locked", "get", "write", "talk"}
History(t) ==
  /\ pc[t] \in InCall => held[t] # 0
  /\ pc[t] \in {"write", "talk"} => tls[t] # 0
  /\ tls[t] = 0 /\ pc[t] \notin {"gone", "dead"} => sent[t] = <<>> /\ executed[t] = {}
  /\ Sized(mOut[t])
  /\ tls[t] # 0 =>
       /\ Ascending(mOut[t].data)
       /\ Below(mOut[t].data, Stride * (Len(sent[t]) + 1))
       /\ mOut[t].mError = "NO_ERROR" => mOut[t].data = Everything(t) /\ Closed(executed[t])

HInv == OutTypes /\ \A t \in Threads : History(t)

LEMMA StrideIs == Stride \in Nat \ {0} /\ Stride = TrWords + 1 /\ TrWords \in Nat \ {0}
BY IPCConstants DEF Stride

LEMMA DivMod ==
  ASSUME NEW s \in Nat \ {0}, NEW n \in Nat, NEW k \in 0 .. (s - 1)
  PROVE  (s * n + k) \div s = n /\ (s * n + k) % s = k
<1>1. s * n \in Nat  OBVIOUS
<1>2. PICK y \in Nat : y = s * n + k  BY <1>1
<1>3. PICK e \in Nat, m \in 0 .. (s - 1) : y = s * e + m /\ y \div s = e /\ y % s = m
  <2>1. /\ y \div s \in Nat /\ y % s \in 0 .. (s - 1)
        /\ y = s * (y \div s) + (y % s)
    OBVIOUS
  <2> QED  BY <2>1
<1>4. ASSUME NEW a \in Nat, NEW b \in Nat, a < b  PROVE s * a + s <= s * b
  <2>1. a + 1 <= b  BY <1>4
  <2>2. s * (a + 1) <= s * b  BY <2>1
  <2> QED  BY <2>2
<1>5. /\ s * e \in Nat /\ s * n + k = s * e + m
      /\ e < n => s * e + s <= s * n
      /\ n < e => s * n + s <= s * e
  BY <1>2, <1>3, <1>4
<1>6. e = n  BY <1>1, <1>5
<1> QED  BY <1>2, <1>3, <1>5, <1>6

LEMMA KeyOf ==
  ASSUME NEW word \in Words
  PROVE  /\ Key(word) \in Nat /\ Key(word) = Stride * word.txn + word.at
         /\ Stride * word.txn <= Key(word)
<1>1. word.txn \in Nat /\ word.at \in 0 .. TrWords  BY DEF Words
<1>2. Stride * word.txn \in Nat  BY <1>1, StrideIs
<1> QED  BY <1>1, <1>2, StrideIs DEF Key

(* One write of a parcel, which may fail.                                   *)
LEMMA Written ==
  ASSUME NEW p \in Parcels, Sized(p), Ascending(p.data), NEW words \in Seq(Words),
         NEW m \in Nat, NEW n \in Nat, Below(p.data, m), m <= n,
         Ascending(words), From(words, m), Below(words, n), NEW q \in Writes(p, words)
  PROVE  /\ q \in Parcels /\ Sized(q) /\ Ascending(q.data) /\ Below(q.data, n)
         /\ q.mError = "NO_ERROR" => p.mError = "NO_ERROR" /\ q.data = p.data \o words
<1>1. PICK d \in Seq(Words), l \in Nat : d = p.data /\ l = Len(d)  BY DEF Parcels
<1>2. PICK k \in Nat : k = Len(words)  OBVIOUS
<1>3. \A v \in DOMAIN d : Key(d[v]) \in Nat /\ Key(d[v]) < m
  BY <1>1, KeyOf DEF Below
<1>4. \A v \in DOMAIN words : Key(words[v]) \in Nat /\ m <= Key(words[v]) /\ Key(words[v]) < n
  BY KeyOf DEF Below, From
<1>5. CASE q = writeWords(p, words)
  <2>1. PICK c : c = IF Fits(p, Word * Len(words)) THEN p ELSE growData(p, Word * Len(words))
    OBVIOUS
  <2>2. /\ c.data = p.data /\ c.mDataSize = p.mDataSize /\ c.mError = p.mError
        /\ c \in Parcels /\ c.mDataSize + Word * Len(words) <= c.mDataCapacity
    <3>1. /\ p.mDataSize \in Nat /\ p.mDataCapacity \in Nat /\ Word * Len(words) \in Nat
      BY DEF Parcels, Word
    <3>2. CASE Fits(p, Word * Len(words))  BY <2>1, <3>1, <3>2 DEF Fits
    <3>3. CASE ~Fits(p, Word * Len(words))
      <4>1. PICK w \in Nat : w = Word * Len(words)  BY <3>1
      <4>2. PICK z \in Nat : z = ((p.mDataSize + w) * 3) \div 2  BY <3>1
      <4>3. p.mDataSize + w <= z  BY <3>1, <4>2, SMTT(20)
      <4>4. c = [p EXCEPT !.mDataCapacity = z]
        BY <2>1, <3>3, <4>1, <4>2 DEF growData, continueWrite
      <4> QED  BY <4>1, <4>3, <4>4 DEF Parcels
    <3> QED  BY <3>2, <3>3
  <2>3. q = [c EXCEPT !.data = c.data \o words, !.mDataSize = c.mDataSize + Word * Len(words)]
    BY <1>5, <2>1 DEF writeWords, finishWrite
  <2>4. PICK e \in Seq(Words) : e = d \o words
    <3>1. d \in Seq(Words) /\ words \in Seq(Words)  OBVIOUS
    <3>2. d \o words \in Seq(Words)  BY ONLY <3>1
    <3> QED  BY <3>2
  <2>5. /\ Len(e) = l + k /\ DOMAIN e = 1 .. (l + k)
        /\ DOMAIN d = 1 .. l /\ DOMAIN words = 1 .. k
        /\ \A v \in 1 .. l : e[v] = d[v]
        /\ \A v \in 1 .. (l + k) : v > l => v - l \in 1 .. k /\ e[v] = words[v - l]
    BY <1>1, <1>2, <2>4
  <2>6. /\ q.data = e /\ q.mDataSize = p.mDataSize + Word * Len(words)
        /\ q.mDataCapacity = c.mDataCapacity /\ q.mError = p.mError /\ q \in Parcels
    <3>1. p.mDataSize + Word * Len(words) \in Nat  BY DEF Parcels, Word
    <3>2. c.data \o words = e  BY <1>1, <2>2, <2>4
    <3> QED  BY <2>2, <2>3, <3>1, <3>2 DEF Parcels
  <2>7. Sized(q)
    <3>1. p.mDataSize = 4 * l /\ Len(q.data) = l + k  BY <1>1, <2>5, <2>6 DEF Sized, Word
    <3>2. q.mDataSize = 4 * (l + k)  BY <1>2, <2>6, <3>1 DEF Word
    <3> QED  BY <2>2, <2>6, <3>1, <3>2 DEF Sized, Word
  <2>8. Below(e, n)
    <3> SUFFICES ASSUME NEW v \in 1 .. (l + k)  PROVE Key(e[v]) < n  BY <2>5 DEF Below
    <3>1. CASE v \in 1 .. l  BY <1>3, <2>5, <3>1
    <3>2. CASE v > l  BY <1>4, <2>5, <3>2
    <3> QED  BY <3>1, <3>2
  <2>9. Ascending(e)
    <3> SUFFICES ASSUME NEW v \in 1 .. (l + k), NEW w \in 1 .. (l + k), v < w
                 PROVE  Key(e[v]) < Key(e[w])
      BY <2>5 DEF Ascending
    <3>1. CASE w \in 1 .. l
      <4>1. v \in 1 .. l  BY <3>1
      <4> QED  BY <1>1, <2>5, <3>1, <4>1 DEF Ascending
    <3>2. CASE v \in 1 .. l /\ w > l
      <4>1. v \in DOMAIN d /\ w - l \in DOMAIN words  BY <2>5, <3>2
      <4>2. /\ Key(d[v]) \in Nat /\ Key(d[v]) < m
            /\ Key(words[w - l]) \in Nat /\ m <= Key(words[w - l])
        BY <1>3, <1>4, <4>1
      <4>3. e[v] = d[v] /\ e[w] = words[w - l]  BY <2>5, <3>2
      <4> QED  BY <4>2, <4>3
    <3>3. CASE v > l
      <4>1. w > l /\ v - l < w - l  BY <3>3
      <4>2. Key(words[v - l]) < Key(words[w - l])  BY <2>5, <3>3, <4>1 DEF Ascending
      <4> QED  BY <2>5, <3>3, <4>1, <4>2
    <3> QED  BY <3>1, <3>2, <3>3
  <2> QED  BY <1>1, <2>4, <2>6, <2>7, <2>8, <2>9
<1>6. CASE q = [p EXCEPT !.mError = "NO_MEMORY"]
  <2>1. /\ q \in Parcels /\ q.data = p.data /\ q.mDataSize = p.mDataSize
        /\ q.mDataCapacity = p.mDataCapacity /\ q.mError = "NO_MEMORY"
    BY <1>6 DEF Parcels
  <2>2. Below(q.data, n)  BY <1>1, <1>3, <2>1 DEF Below
  <2> QED  BY <2>1, <2>2 DEF Sized
<1> QED  BY <1>5, <1>6 DEF Writes

LEMMA Concatenated ==
  ASSUME NEW s \in Seq(Words), NEW t \in Seq(Words)
  PROVE  /\ s \o t \in Seq(Words) /\ Len(s \o t) = Len(s) + Len(t)
         /\ Len(s) \in Nat /\ Len(t) \in Nat
         /\ \A v \in 1 .. Len(s) : (s \o t)[v] = s[v]
         /\ \A v \in 1 .. Len(t) : (s \o t)[Len(s) + v] = t[v]
<1>1. PICK l \in Nat, k \in Nat : l = Len(s) /\ k = Len(t)  OBVIOUS
<1>2. PICK e : e = s \o t  OBVIOUS
<1>3. e \in Seq(Words) /\ Len(e) = l + k  BY <1>1, <1>2
<1>4. \A v \in 1 .. (l + k) : e[v] = IF v <= l THEN s[v] ELSE t[v - l]  BY <1>1, <1>2
<1>5. \A v \in 1 .. l : e[v] = s[v]  BY <1>4
<1>6. \A v \in 1 .. k : e[l + v] = t[v]
  <2> SUFFICES ASSUME NEW v \in 1 .. k  PROVE e[l + v] = t[v]  OBVIOUS
  <2>1. l + v \in 1 .. (l + k) /\ ~(l + v <= l) /\ (l + v) - l = v  OBVIOUS
  <2> QED  BY <1>4, <2>1
<1> QED  BY <1>1, <1>2, <1>3, <1>5, <1>6

(* The words of a transaction more are the command and what is behind it.   *)
LEMMA TransactionWords ==
  ASSUME NEW i \in Nat
  PROVE  /\ Command(i) \in Seq(Words) /\ Len(Command(i)) = 1 /\ DOMAIN Command(i) = {1}
         /\ Command(i)[1] = [txn |-> i, at |-> 0] /\ Key(Command(i)[1]) = Stride * i
         /\ Tr(i) \in Seq(Words) /\ Len(Tr(i)) = TrWords /\ DOMAIN Tr(i) = 1 .. TrWords
         /\ \A k \in 1 .. TrWords : /\ Tr(i)[k] = [txn |-> i, at |-> k]
                                    /\ Key(Tr(i)[k]) = Stride * i + k
<1>1. [txn |-> i, at |-> 0] \in Words  BY StrideIs DEF Words
<1>2. \A k \in 1 .. TrWords : [txn |-> i, at |-> k] \in Words  BY StrideIs DEF Words
<1>3. TrWords \in Nat  BY StrideIs
<1>4. Stride * i \in Nat  BY StrideIs
<1>5. PICK c : c = [txn |-> i, at |-> 0]  OBVIOUS
<1>6. Command(i) = <<c>> /\ c \in Words /\ c.txn = i /\ c.at = 0  BY <1>1, <1>5 DEF Command
<1>7. Tr(i) = [k \in 1 .. TrWords |-> [txn |-> i, at |-> k]]  BY DEF Tr
<1>8. Tr(i) \in Seq(Words) /\ Len(Tr(i)) = TrWords  BY <1>2, <1>3, <1>7
<1>9. \A k \in 1 .. TrWords : Key(Tr(i)[k]) = Stride * i + k  BY <1>7 DEF Key
<1>10. /\ Command(i) \in Seq(Words) /\ Len(Command(i)) = 1 /\ DOMAIN Command(i) = {1}
       /\ Command(i)[1] = c
  BY <1>6
<1>11. Key(c) = Stride * i  BY <1>4, <1>6 DEF Key
<1>12. DOMAIN Tr(i) = 1 .. TrWords /\ \A k \in 1 .. TrWords : Tr(i)[k] = [txn |-> i, at |-> k]
  BY <1>7
<1> QED  BY <1>5, <1>8, <1>9, <1>10, <1>11, <1>12

AllOf(n) == [w \in 1 .. (Stride * n) |->
                  [txn |-> ((w - 1) \div Stride) + 1, at |-> (w - 1) % Stride]]

LEMMA OneMore ==
  ASSUME NEW n \in Nat
  PROVE  (AllOf(n) \o Command(n + 1)) \o Tr(n + 1) = AllOf(n + 1)
<1>1. PICK a \in Nat : a = Stride * n  BY StrideIs
<1>2. Stride * (n + 1) = a + 1 + TrWords  BY <1>1, StrideIs
<1>3. AllOf(n) \in Seq(Words) /\ Len(AllOf(n)) = a
  <2>1. \A w \in 1 .. a : [txn |-> ((w - 1) \div Stride) + 1, at |-> (w - 1) % Stride] \in Words
    <3> SUFFICES ASSUME NEW w \in 1 .. a
                 PROVE  ((w - 1) \div Stride) + 1 \in Nat /\ (w - 1) % Stride \in 0 .. TrWords
      BY DEF Words
    <3>1. w - 1 \in Nat  OBVIOUS
    <3> QED  BY <3>1, StrideIs
  <2> QED  BY <1>1, <2>1 DEF AllOf
<1>4. PICK h \in Seq(Words), c \in Seq(Words), t \in Seq(Words) :
        h = AllOf(n) /\ c = Command(n + 1) /\ t = Tr(n + 1)
  <2>1. n + 1 \in Nat  OBVIOUS
  <2>2. Command(n + 1) \in Seq(Words) /\ Tr(n + 1) \in Seq(Words)
    BY <2>1, TransactionWords
  <2> QED  BY <1>3, <2>2
<1>5. /\ Len(h) = a /\ Len(c) = 1 /\ Len(t) = TrWords
      /\ c[1] = [txn |-> n + 1, at |-> 0]
      /\ \A k \in 1 .. TrWords : t[k] = [txn |-> n + 1, at |-> k]
      /\ \A w \in 1 .. a : h[w] = [txn |-> ((w - 1) \div Stride) + 1, at |-> (w - 1) % Stride]
  <2>1. n + 1 \in Nat  OBVIOUS
  <2>2. \A w \in 1 .. a : h[w] = [txn |-> ((w - 1) \div Stride) + 1, at |-> (w - 1) % Stride]
    BY <1>1, <1>4 DEF AllOf
  <2> QED  BY <1>3, <1>4, <2>1, <2>2, TransactionWords
<1>6. PICK s \in Seq(Words) : s = (h \o c) \o t
  <2>1. h \in Seq(Words) /\ c \in Seq(Words) /\ t \in Seq(Words)  OBVIOUS
  <2>2. (h \o c) \o t \in Seq(Words)  BY ONLY <2>1
  <2> QED  BY <2>2
<1>7. /\ Len(s) = a + 1 + TrWords
      /\ \A w \in 1 .. a : s[w] = h[w]
      /\ s[a + 1] = c[1]
      /\ \A k \in 1 .. TrWords : s[a + 1 + k] = t[k]
  <2>1. TrWords \in Nat  BY StrideIs
  <2>2. PICK u : u = h \o c  OBVIOUS
  <2>3. /\ u \in Seq(Words) /\ Len(u) = Len(h) + Len(c)
        /\ \A w \in 1 .. Len(h) : u[w] = h[w]
        /\ \A w \in 1 .. Len(c) : u[Len(h) + w] = c[w]
    BY <2>2, Concatenated
  <2>4. Len(u) = a + 1 /\ (\A w \in 1 .. a : u[w] = h[w]) /\ u[a + 1] = c[1]
    BY <1>5, <2>3
  <2>5. /\ Len(s) = Len(u) + Len(t)
        /\ \A w \in 1 .. Len(u) : s[w] = u[w]
        /\ \A w \in 1 .. Len(t) : s[Len(u) + w] = t[w]
    BY <1>6, <2>2, <2>3, Concatenated, SMTT(20)
  <2>6. \A w \in 1 .. a : w \in 1 .. (a + 1)  OBVIOUS
  <2>7. a + 1 \in 1 .. (a + 1)  OBVIOUS
  <2> QED  BY <1>5, <2>1, <2>4, <2>5, <2>6, <2>7
<1>8. \A w \in 1 .. (a + 1 + TrWords) :
        s[w] = [txn |-> ((w - 1) \div Stride) + 1, at |-> (w - 1) % Stride]
  <2> SUFFICES ASSUME NEW w \in 1 .. (a + 1 + TrWords)
               PROVE  s[w] = [txn |-> ((w - 1) \div Stride) + 1, at |-> (w - 1) % Stride]
    OBVIOUS
  <2>1. CASE w \in 1 .. a  BY <1>5, <1>7, <2>1
  <2>2. CASE w > a
    <3>1. PICK k \in 0 .. TrWords : w = a + 1 + k
      <4>1. w - a - 1 \in 0 .. TrWords  BY <2>2, StrideIs
      <4> QED  BY <4>1
    <3>2. k \in 0 .. (Stride - 1) /\ Stride \in Nat \ {0}  BY StrideIs
    <3>3. (Stride * n + k) \div Stride = n /\ (Stride * n + k) % Stride = k
      BY ONLY <3>2, n \in Nat, DivMod
    <3>4. w - 1 = Stride * n + k  BY <1>1, <3>1
    <3>5. s[w] = [txn |-> n + 1, at |-> k]
      <4>1. CASE k = 0  BY <1>5, <1>7, <3>1, <4>1
      <4>2. CASE k \in 1 .. TrWords  BY <1>5, <1>7, <3>1, <4>2
      <4> QED  BY <4>1, <4>2, StrideIs
    <3> QED  BY <3>3, <3>4, <3>5
  <2> QED  BY <2>1, <2>2
<1>9. s = [w \in 1 .. (a + 1 + TrWords) |-> s[w]]
  <2>1. a + 1 + TrWords \in Nat  BY StrideIs
  <2> QED  BY <1>7, <2>1
<1>10. [w \in 1 .. (a + 1 + TrWords) |-> s[w]] = AllOf(n + 1)
  BY <1>2, <1>8 DEF AllOf
<1> QED  BY <1>4, <1>6, <1>9, <1>10

LEMMA WriteKeepsOut ==
  ASSUME HInv, StateKept, PInv, NEW t \in Threads, WriteTransactionData(t)
  PROVE  HInv'
<1>1. PICK n \in Nat : n = Len(sent[t])  BY DEF HInv, OutTypes
<1>2. PICK p \in Parcels : p = mOut[t]  BY DEF HInv, OutTypes
<1>3. pc[t] = "write" /\ held[t] # 0 /\ tls[t] # 0  BY DEF HInv, History, WriteTransactionData, At, InCall
<1>4. PICK q \in Writes(p, Command(n + 1)) : \E r \in Writes(q, Tr(n + 1)) :
        mOut' = [mOut EXCEPT ![t] = r]
  BY <1>1, <1>2 DEF WriteTransactionData
<1>5. PICK r \in Writes(q, Tr(n + 1)) : mOut' = [mOut EXCEPT ![t] = r]  BY <1>4
<1>6. PICK m \in Nat : /\ m = Stride * (n + 1) /\ Stride * (n + 2) = m + 1 + TrWords
                       /\ TrWords \in Nat
  BY StrideIs
<1>7. /\ Sized(p) /\ Ascending(p.data) /\ Below(p.data, m)
      /\ p.mError = "NO_ERROR" => p.data = Everything(t) /\ Closed(executed[t])
  BY <1>1, <1>2, <1>3, <1>6 DEF HInv, History
<1>8. n + 1 \in Nat  OBVIOUS
<1>9. /\ q \in Parcels /\ Sized(q) /\ Ascending(q.data) /\ Below(q.data, m + 1)
      /\ q.mError = "NO_ERROR" => p.mError = "NO_ERROR" /\ q.data = p.data \o Command(n + 1)
  <2>1. PICK c : c = Command(n + 1)  OBVIOUS
  <2>2. c \in Seq(Words) /\ DOMAIN c = {1} /\ Key(c[1]) = m
    BY <1>6, <1>8, <2>1, TransactionWords
  <2>3. Ascending(c) /\ From(c, m) /\ Below(c, m + 1)
    BY <2>2 DEF Ascending, From, Below
  <2>4. m + 1 \in Nat /\ m <= m + 1 /\ q \in Writes(p, c)  BY <2>1
  <2> QED  BY <1>7, <2>1, <2>2, <2>3, <2>4, Written
<1>10. /\ r \in Parcels /\ Sized(r) /\ Ascending(r.data) /\ Below(r.data, m + 1 + TrWords)
       /\ r.mError = "NO_ERROR" => q.mError = "NO_ERROR" /\ r.data = q.data \o Tr(n + 1)
  <2>1. PICK c : c = Tr(n + 1)  OBVIOUS
  <2>2. /\ c \in Seq(Words) /\ DOMAIN c = 1 .. TrWords
        /\ \A k \in 1 .. TrWords : Key(c[k]) = m + k
    BY <1>6, <1>8, <2>1, TransactionWords
  <2>3. Ascending(c) /\ From(c, m + 1) /\ Below(c, m + 1 + TrWords)
    BY <1>6, <2>2 DEF Ascending, From, Below
  <2>4. r \in Writes(q, c)  BY <2>1
  <2>5. PICK a \in Nat, b \in Nat : a = m + 1 /\ b = m + 1 + TrWords /\ a <= b
    BY <1>6
  <2>6. /\ r \in Parcels /\ Sized(r) /\ Ascending(r.data) /\ Below(r.data, b)
        /\ r.mError = "NO_ERROR" => q.mError = "NO_ERROR" /\ r.data = q.data \o c
    <3>1. Below(q.data, a) /\ From(c, a) /\ Below(c, b)  BY <1>9, <2>3, <2>5
    <3>2. q \in Parcels /\ Sized(q) /\ Ascending(q.data)  BY <1>9
    <3>3. a \in Nat /\ b \in Nat /\ a <= b  BY <2>5
    <3> QED  BY ONLY <2>2, <2>3, <2>4, <3>1, <3>2, <3>3, Written
  <2> QED  BY <2>1, <2>5, <2>6
<1>11. /\ sent' \in [Threads -> Seq(Handles)] /\ Len(sent'[t]) = n + 1
       /\ \A u \in Threads : u # t => sent'[u] = sent[u]
  <2>1. held[t] \in DOMAIN proxies /\ proxies \in Seq(Proxies)
    BY <1>3 DEF PInv, ProxyTypes
  <2>2. proxies[held[t]].handle \in Handles
    <3>1. proxies[held[t]] \in Proxies  BY <2>1
    <3> QED  BY <3>1 DEF Proxies
  <2>3. sent' = [sent EXCEPT ![t] = Append(sent[t], proxies[held[t]].handle)]
    BY DEF WriteTransactionData
  <2>4. sent[t] \in Seq(Handles) /\ sent \in [Threads -> Seq(Handles)]  BY DEF HInv, OutTypes
  <2>5. PICK s \in Seq(Handles) : /\ s = Append(sent[t], proxies[held[t]].handle)
                                  /\ Len(s) = n + 1
    <3>1. PICK old \in Seq(Handles), h \in Handles :
            old = sent[t] /\ h = proxies[held[t]].handle
      BY <2>2, <2>4
    <3>2. Append(old, h) \in Seq(Handles) /\ Len(Append(old, h)) = Len(old) + 1
      BY ONLY <3>1
    <3> QED  BY <1>1, <3>1, <3>2
  <2>6. sent' = [sent EXCEPT ![t] = s]  BY <2>3, <2>5
  <2> QED  BY <2>4, <2>5, <2>6
<1>12. /\ executed' = executed /\ tls' = tls /\ held' = held
       /\ pc' = [pc EXCEPT ![t] = "talk"]
  BY DEF WriteTransactionData, At, Goto, hvars
<1>13. /\ mOut'[t] = r /\ pc'[t] = "talk"
       /\ \A u \in Threads : u # t => mOut'[u] = mOut[u] /\ pc'[u] = pc[u]
  BY <1>5, <1>12 DEF HInv, OutTypes, StateKept
<1>14. OutTypes'
  <2>1. mOut' \in [Threads -> Parcels]  BY <1>5, <1>10 DEF HInv, OutTypes
  <2> QED  BY <1>11, <1>12, <2>1 DEF HInv, OutTypes
<1>15. History(t)'
  <2>1. Stride * (Len(sent'[t]) + 1) = m + 1 + TrWords
    <3>1. Len(sent'[t]) + 1 = n + 2  BY <1>11
    <3> QED  BY <1>6, <3>1
  <2>2. ASSUME r.mError = "NO_ERROR"  PROVE r.data = Everything(t)' /\ Closed(executed[t])
    <3>1. p.data = AllOf(n) /\ Closed(executed[t])
      BY <1>1, <1>7, <1>9, <1>10, <2>2 DEF Everything, AllOf
    <3>2. r.data = AllOf(n + 1)  BY <1>9, <1>10, <2>2, <3>1, OneMore
    <3>3. Everything(t)' = AllOf(n + 1)  BY <1>11 DEF Everything, AllOf, Stride
    <3> QED  BY <3>1, <3>2, <3>3
  <2>3. pc'[t] = "talk" /\ held'[t] # 0 /\ tls'[t] # 0  BY <1>3, <1>12, <1>13
  <2>4. /\ Sized(mOut'[t]) /\ Ascending(mOut'[t].data)
        /\ Below(mOut'[t].data, Stride * (Len(sent'[t]) + 1))
    BY <1>10, <1>13, <2>1
  <2>5. mOut'[t].mError = "NO_ERROR" => mOut'[t].data = Everything(t)' /\ Closed(executed'[t])
    BY <1>12, <1>13, <2>2
  <2> QED
    BY <2>3, <2>4, <2>5 DEF History, Sized, Ascending, Below, Closed, Key, Stride, Word
<1>16. ASSUME NEW u \in Threads, u # t  PROVE History(u)'
  <2>1. /\ mOut'[u] = mOut[u] /\ sent'[u] = sent[u] /\ executed'[u] = executed[u]
        /\ tls'[u] = tls[u] /\ held'[u] = held[u] /\ pc'[u] = pc[u] /\ History(u)
    BY <1>11, <1>12, <1>13, <1>16 DEF HInv
  <2> QED
    BY <2>1 DEF History, Sized, Ascending, Below, Closed, Key, Stride, Word, Everything
<1> QED  BY <1>14, <1>15, <1>16 DEF HInv

(* The driver executes the transactions of a whole history from the first.  *)
LEMMA ExecutesFromFirst ==
  ASSUME NEW t \in Threads, NEW out, NEW n \in Nat, out.data = AllOf(n)
  PROVE  Closed({TxnAt(out, p) : p \in Executes(t, out)})
<1>1. PICK d : d = out.data  OBVIOUS
<1>2. PICK a \in Nat : a = Stride * n  BY StrideIs
<1>3. /\ DOMAIN d = 1 .. a
      /\ \A w \in 1 .. a : d[w] = [txn |-> ((w - 1) \div Stride) + 1, at |-> (w - 1) % Stride]
  BY <1>1, <1>2 DEF AllOf
<1>4. SUFFICES ASSUME NEW p \in Executes(t, out), NEW j \in 1 .. TxnAt(out, p)
               PROVE  \E q \in Executes(t, out) : TxnAt(out, q) = j
  BY DEF Closed
<1>5. p \in 1 .. a /\ d[p].at = 0  BY <1>1, <1>3 DEF Executes, Commands
<1>6. PICK e \in Nat : e = (p - 1) \div Stride /\ p - 1 = Stride * e
  <2>1. p - 1 \in Nat /\ Stride \in Nat \ {0}  BY <1>5, StrideIs
  <2>2. (p - 1) % Stride = 0  BY <1>3, <1>5
  <2>3. PICK x \in Nat : x = p - 1  BY <2>1
  <2>4. x \div Stride \in Nat /\ x = Stride * (x \div Stride) + (x % Stride)
    BY <2>1
  <2>5. PICK y \in Nat : y = x \div Stride /\ x = Stride * y + 0  BY <2>2, <2>3, <2>4
  <2>6. Stride * y \in Nat  BY <2>1
  <2> QED  BY <2>3, <2>5, <2>6
<1>7. TxnAt(out, p) = e + 1  BY <1>1, <1>3, <1>5, <1>6 DEF TxnAt
<1>8. j - 1 \in Nat /\ j - 1 <= e  BY <1>7
<1>9. Stride * (j - 1) \in Nat /\ Stride * (j - 1) <= Stride * e
  BY <1>8, StrideIs
<1>10. PICK q \in 1 .. a : q = Stride * (j - 1) + 1 /\ q <= p
  <2>1. Stride * (j - 1) + 1 <= p  BY <1>5, <1>6, <1>9
  <2> QED  BY <1>2, <1>5, <1>9, <2>1
<1>11. d[q] = [txn |-> j, at |-> 0]
  <2>1. Stride \in Nat \ {0} /\ 0 \in 0 .. (Stride - 1)  BY StrideIs
  <2>2. PICK i \in Nat : i = j - 1  BY <1>8
  <2>3. (Stride * i + 0) \div Stride = i /\ (Stride * i + 0) % Stride = 0
    BY ONLY <2>1, <2>2, DivMod
  <2>4. q - 1 = Stride * i + 0  BY <1>9, <1>10, <2>2
  <2>5. (q - 1) \div Stride = i /\ (q - 1) % Stride = 0  BY <2>3, <2>4
  <2> QED  BY <1>3, <2>2, <2>5
<1>12. q \in Commands(out) /\ TxnAt(out, q) = j
  BY <1>1, <1>3, <1>11 DEF Commands, TxnAt
<1>13. \A c \in Commands(out) : c <= q => Executable(t, out, c)
  <2> SUFFICES ASSUME NEW c \in Commands(out), c <= q  PROVE Executable(t, out, c)
    OBVIOUS
  <2>1. c \in 1 .. a  BY <1>1, <1>3 DEF Commands
  <2>2. c <= p  BY <1>5, <1>10, <2>1
  <2> QED  BY <2>2 DEF Executes
<1> QED  BY <1>12, <1>13 DEF Executes

LEMMA TalkKeepsOut ==
  ASSUME HInv, StateKept, NEW t \in Threads, TalkWithDriver(t)
  PROVE  HInv'
<1>1. PICK out \in Parcels : out = mOut[t]  BY DEF HInv, OutTypes
<1>2. PICK S : S = {TxnAt(out, p) : p \in Executes(t, out)}  OBVIOUS
<1>3. S \in SUBSET Nat
  <2> SUFFICES ASSUME NEW p \in Executes(t, out)  PROVE TxnAt(out, p) \in Nat  BY <1>2
  <2>1. p \in DOMAIN out.data /\ out.data \in Seq(Words)
    BY DEF Executes, Commands, Parcels
  <2>2. out.data[p] \in Words  BY <2>1
  <2> QED  BY <2>2 DEF Words, TxnAt
<1>4. /\ mOut' = mOut /\ sent' = sent /\ tls' = tls /\ held' = held
      /\ pc[t] = "talk"
  BY DEF TalkWithDriver, svars, hvars
<1>5. executed' = executed \/ executed' = [executed EXCEPT ![t] = executed[t] \cup S]
  BY <1>1, <1>2 DEF TalkWithDriver, IoctlWriteRead
<1>6. pc' = pc \/ pc' = [pc EXCEPT ![t] = "user"] \/ pc' = [pc EXCEPT ![t] = "dead"]
  BY DEF TalkWithDriver, IoctlWriteRead, Return, Goto
<1>7. /\ pc'[t] \in {"talk", "user", "dead"}
      /\ \A u \in Threads : u # t => pc'[u] = pc[u] /\ executed'[u] = executed[u]
      /\ executed'[t] = executed[t] \/ executed'[t] = executed[t] \cup S
  BY <1>4, <1>5, <1>6 DEF StateKept, HInv, OutTypes
<1>8. OutTypes'
  <2>1. executed' \in [Threads -> SUBSET Nat]  BY <1>3, <1>5 DEF HInv, OutTypes
  <2> QED  BY <1>4, <2>1 DEF HInv, OutTypes
<1>9. History(t)'
  <2>0. History(t) /\ held[t] # 0 /\ tls[t] # 0  BY <1>4 DEF HInv, History, InCall
  <2>1. ASSUME out.mError = "NO_ERROR"
        PROVE  out.data = Everything(t) /\ Closed(executed'[t])
    <3>1. out.data = Everything(t) /\ Closed(executed[t])  BY <1>1, <2>0, <2>1 DEF History
    <3>2. PICK n \in Nat : n = Len(sent[t])  BY DEF HInv, OutTypes
    <3>3. out.data = AllOf(n)  BY <3>1, <3>2 DEF Everything, AllOf
    <3>4. Closed(S)  BY <1>2, <3>3, ExecutesFromFirst
    <3>5. Closed(executed[t] \cup S)  BY <3>1, <3>4 DEF Closed
    <3> QED  BY <1>7, <3>1, <3>5
  <2>2. mOut'[t].mError = "NO_ERROR" => mOut'[t].data = Everything(t)' /\ Closed(executed'[t])
    BY <1>1, <1>4, <2>1 DEF Everything, Stride
  <2>3. /\ Sized(mOut'[t]) /\ Ascending(mOut'[t].data)
        /\ Below(mOut'[t].data, Stride * (Len(sent'[t]) + 1))
    BY <1>4, <2>0 DEF History
  <2> QED
    BY <1>4, <2>0, <2>2, <2>3 DEF History, Sized, Ascending, Below, Closed, Key, Stride, Word
<1>10. ASSUME NEW u \in Threads, u # t  PROVE History(u)'
  <2>1. /\ mOut'[u] = mOut[u] /\ sent'[u] = sent[u] /\ executed'[u] = executed[u]
        /\ tls'[u] = tls[u] /\ held'[u] = held[u] /\ pc'[u] = pc[u] /\ History(u)
    BY <1>4, <1>7, <1>10 DEF HInv
  <2> QED
    BY <2>1 DEF History, Sized, Ascending, Below, Closed, Key, Stride, Word, Everything
<1> QED  BY <1>8, <1>9, <1>10 DEF HInv

LEMMA OutStays ==
  ASSUME NEW u, History(u), mOut'[u] = mOut[u], sent'[u] = sent[u],
         executed'[u] = executed[u], tls'[u] = tls[u],
         pc'[u] \in InCall => held'[u] # 0,
         pc'[u] \in {"write", "talk"} => tls[u] # 0,
         pc[u] \in {"gone", "dead"} => pc'[u] \in {"gone", "dead"}
  PROVE  History(u)'
BY DEF History, Sized, Ascending, Below, Closed, Key, Stride, Word, Everything, InCall

(* A call begins with the proxy in hand, and nobody else takes it away.     *)
LEMMA CallsKeepOut ==
  ASSUME HInv, StateKept, PInv, UNCHANGED <<mOut, sent, executed, tls>>,
         \/ \E t \in Threads :
              \/ ProcessStateSelf(t) \/ \E d \in Drivers : InitWithDriver(t, d)
              \/ \E h \in Handles : GetStrongProxyForHandle(t, h)
              \/ \E v \in Threads : Share(t, v)
              \/ Drop(t) \/ Call(t)
              \/ Self(t) \/ LockTLS(t) \/ MakeKey(t) \/ DataError(t)
         \/ \E p \in DOMAIN proxies : Destroyed(p)
         \/ ManagerAppears \/ UNCHANGED vars
  PROVE  HInv'
<1>1. OutTypes'  BY DEF HInv, OutTypes
<1>2. pc \in [Threads -> Steps] /\ held \in [Threads -> 0 .. Len(proxies)]
  BY DEF StateKept, PInv, ProxyTypes
<1>3. SUFFICES ASSUME NEW u \in Threads
               PROVE  /\ pc'[u] \in InCall => held'[u] # 0
                      /\ pc'[u] \in {"write", "talk"} => tls[u] # 0
                      /\ pc[u] \in {"gone", "dead"} => pc'[u] \in {"gone", "dead"}
  <2>1. mOut' = mOut /\ sent' = sent /\ executed' = executed /\ tls' = tls  OBVIOUS
  <2> QED  BY <1>1, <1>3, <2>1, OutStays DEF HInv
<1>4. /\ pc[u] \in InCall => held[u] # 0
      /\ pc[u] \in {"write", "talk"} => tls[u] # 0
  BY DEF HInv, History
<1>5. CASE pc' = pc /\ held' = held  BY <1>4, <1>5
<1>6. ASSUME NEW t \in Threads, NEW h \in Handles, GetStrongProxyForHandle(t, h)
      PROVE  pc' = pc /\ \A v \in Threads : pc[v] \in InCall => held'[v] = held[v]
  <2>1. pc[t] = "user" /\ pc' = pc  BY <1>6 DEF GetStrongProxyForHandle
  <2>2. \A v \in Threads : v # t => held'[v] = held[v]
    BY <1>2, <1>6 DEF GetStrongProxyForHandle, Got, CreateProxy
  <2> QED  BY <2>1, <2>2 DEF InCall
<1>7. ASSUME NEW t \in Threads, NEW v \in Threads, Share(t, v)
      PROVE  pc' = pc /\ \A w \in Threads : pc[w] \in InCall => held'[w] = held[w]
  BY <1>2, <1>7 DEF Share, InCall
<1>8. ASSUME NEW t \in Threads, Drop(t)
      PROVE  pc' = pc /\ \A w \in Threads : pc[w] \in InCall => held'[w] = held[w]
  BY <1>2, <1>8 DEF Drop, InCall
<1>9. ASSUME NEW t \in Threads, Call(t)
      PROVE  /\ held' = held /\ held[t] # 0 /\ pc'[t] = "self" /\ pc[t] = "user"
             /\ \A w \in Threads : w # t => pc'[w] = pc[w]
  BY <1>2, <1>9 DEF Call, At, Goto, hvars
<1>10. ASSUME NEW t \in Threads, Self(t) \/ LockTLS(t) \/ MakeKey(t) \/ DataError(t)
       PROVE  /\ held' = held
              /\ \A w \in Threads : \/ pc'[w] = pc[w] \/ pc'[w] = "dead"
                                    \/ /\ w = t /\ pc[w] \in InCall
                                       /\ pc'[w] \in {"get", "lock", "locked", "user"}
  <2>1. CASE Self(t)  BY <1>2, <2>1 DEF Self, Goto, hvars, InCall
  <2>2. CASE LockTLS(t)  BY <1>2, <2>2 DEF LockTLS, At, Goto, hvars, InCall
  <2>3. CASE DataError(t)  BY <1>2, <2>3 DEF DataError, At, Goto, hvars, InCall
  <2>4. CASE MakeKey(t)
    BY <1>2, <2>4 DEF MakeKey, CreateKey, Crash, Goto, hvars, InCall
  <2> QED  BY <1>10, <2>1, <2>2, <2>3, <2>4
<1>11. CASE \E t \in Threads : Self(t) \/ LockTLS(t) \/ MakeKey(t) \/ DataError(t)
  BY <1>4, <1>10, <1>11 DEF InCall
<1>12. CASE \E t \in Threads : Call(t)  BY <1>4, <1>9, <1>12 DEF InCall
<1>13. CASE \E t \in Threads : \/ \E h \in Handles : GetStrongProxyForHandle(t, h)
                               \/ \E v \in Threads : Share(t, v)
                               \/ Drop(t)
  BY <1>4, <1>6, <1>7, <1>8, <1>13
<1>14. CASE \/ \E t \in Threads :
                 ProcessStateSelf(t) \/ \E d \in Drivers : InitWithDriver(t, d)
            \/ \E p \in DOMAIN proxies : Destroyed(p)
            \/ ManagerAppears \/ UNCHANGED vars
  <2>1. pc' = pc /\ held' = held
    BY <1>14 DEF ProcessStateSelf, InitWithDriver, Destroyed, ManagerAppears, vars, hvars
  <2> QED  BY <1>5, <2>1
<1> QED  BY <1>11, <1>12, <1>13, <1>14

LEMMA GetKeepsOut ==
  ASSUME HInv, StateKept, NEW t \in Threads, GetState(t)  PROVE HInv'
<1>1. /\ pc[t] = "get" /\ pc'[t] = "write" /\ gTLS = 1 /\ tls[t] \in {0, 1}
      /\ held' = held /\ sent' = sent /\ executed' = executed
      /\ \A u \in Threads : u # t => pc'[u] = pc[u]
  BY DEF GetState, At, Goto, hvars, dvars, StateKept
<1>2. History(t) /\ held[t] # 0  BY <1>1 DEF HInv, History, InCall
<1>3. CASE tls[t] = 1
  <2>1. mOut' = mOut /\ tls' = tls  BY <1>1, <1>3 DEF GetState, svars
  <2>2. \A u \in Threads : History(u)'
    BY <1>1, <1>2, <1>3, <2>1, OutStays DEF HInv, History, InCall
  <2> QED  BY <1>1, <2>1, <2>2 DEF HInv, OutTypes
<1>4. CASE tls[t] = 0
  <2>1. tls' = [tls EXCEPT ![t] = 1] /\ mOut' = [mOut EXCEPT ![t] = EmptyParcel]
    BY <1>1, <1>4 DEF GetState
  <2>2. EmptyParcel \in Parcels  BY DEF EmptyParcel, Parcels
  <2>3. mOut' \in [Threads -> Parcels]  BY <2>1, <2>2 DEF HInv, OutTypes
  <2>4. /\ tls'[t] = 1 /\ mOut'[t] = EmptyParcel
        /\ \A u \in Threads : u # t => tls'[u] = tls[u] /\ mOut'[u] = mOut[u]
    BY <2>1 DEF HInv, OutTypes, StateKept
  <2>5. sent[t] = <<>> /\ executed[t] = {}  BY <1>1, <1>2, <1>4 DEF History
  <2>6. History(t)'
    <3>1. PICK p : p = EmptyParcel  OBVIOUS
    <3>2. /\ p.data = <<>> /\ DOMAIN p.data = {} /\ Len(p.data) = 0
          /\ p.mDataSize = 0 /\ p.mDataCapacity = 0
      BY <3>1 DEF EmptyParcel
    <3>3. Everything(t)' = <<>>
      <4>1. Stride * 0 = 0  BY StrideIs
      <4>2. Len(sent'[t]) = 0  BY <1>1, <2>5
      <4> QED  BY <4>1, <4>2 DEF Everything, Stride
    <3>4. Closed(executed'[t])  BY <1>1, <2>5 DEF Closed
    <3>5. Sized(p) /\ Ascending(p.data) /\ \A n : Below(p.data, n)
      BY <3>2 DEF Sized, Ascending, Below, Word
    <3>6. mOut'[t] = p  BY <2>4, <3>1
    <3> QED
      BY <1>1, <1>2, <2>4, <3>2, <3>3, <3>4, <3>5, <3>6
      DEF History, Sized, Ascending, Below, Closed, Key, Stride, Word
  <2>7. \A u \in Threads : u # t => History(u)'
    BY <1>1, <2>4, OutStays DEF HInv, History, InCall
  <2> QED  BY <1>1, <2>3, <2>6, <2>7 DEF HInv, OutTypes
<1> QED  BY <1>1, <1>3, <1>4

LEMMA ExitKeepsOut ==
  ASSUME HInv, StateKept, NEW t \in Threads, ExitThread(t)  PROVE HInv'
<1>1. /\ pc'[t] = "gone" /\ held' = held /\ sent' = sent /\ executed' = executed
      /\ \A u \in Threads : u # t => pc'[u] = pc[u]
  BY DEF ExitThread, At, Goto, hvars, dvars, StateKept
<1>2. tls' = [tls EXCEPT ![t] = 0] /\ mOut' = [mOut EXCEPT ![t] = EmptyParcel]
  BY DEF ExitThread
<1>3. EmptyParcel \in Parcels /\ Sized(EmptyParcel)
  BY DEF EmptyParcel, Parcels, Sized, Word
<1>4. mOut' \in [Threads -> Parcels]  BY <1>2, <1>3 DEF HInv, OutTypes
<1>5. /\ tls'[t] = 0 /\ mOut'[t] = EmptyParcel
      /\ \A u \in Threads : u # t => tls'[u] = tls[u] /\ mOut'[u] = mOut[u]
  BY <1>2 DEF HInv, OutTypes, StateKept
<1>6. History(t)'
  <2>1. Sized(mOut'[t])  BY <1>3, <1>5
  <2> QED  BY <1>1, <1>5, <2>1 DEF History, Sized, InCall, Word
<1>7. \A u \in Threads : u # t => History(u)'
  BY <1>1, <1>5, OutStays DEF HInv, History, InCall
<1> QED  BY <1>1, <1>4, <1>6, <1>7 DEF HInv, OutTypes

LEMMA NextHInv == HInv /\ StateKept /\ PInv /\ [Next]_vars => HInv'
<1> SUFFICES ASSUME HInv, StateKept, PInv, [Next]_vars  PROVE HInv'  OBVIOUS
<1>1. ASSUME \/ \E t \in Threads :
                  \/ ProcessStateSelf(t) \/ \E d \in Drivers : InitWithDriver(t, d)
                  \/ \E h \in Handles : GetStrongProxyForHandle(t, h)
                  \/ \E v \in Threads : Share(t, v)
                  \/ Drop(t) \/ Call(t)
                  \/ Self(t) \/ LockTLS(t) \/ MakeKey(t) \/ DataError(t)
             \/ \E p \in DOMAIN proxies : Destroyed(p)
             \/ ManagerAppears \/ UNCHANGED vars
      PROVE  HInv'
  <2>1. UNCHANGED <<mOut, sent, executed, tls>>
    BY <1>1 DEF ProcessStateSelf, InitWithDriver, GetStrongProxyForHandle, Share, Drop, Call,
       Self, LockTLS, MakeKey, DataError, Destroyed, ManagerAppears, vars, svars, dvars
  <2> QED  BY <1>1, <2>1, CallsKeepOut
<1>2. ASSUME NEW t \in Threads,
             GetState(t) \/ ExitThread(t) \/ WriteTransactionData(t) \/ TalkWithDriver(t)
      PROVE  HInv'
  BY <1>2, GetKeepsOut, ExitKeepsOut, WriteKeepsOut, TalkKeepsOut
<1> QED  BY <1>1, <1>2 DEF Next, Step

(* As long as no allocation failed mOut is all that its thread ever sent,   *)
(* whole and in order (nothing is ever consumed, IPCThreadState.cpp:263),   *)
(* never more than its capacity, and the driver has executed no transaction *)
(* before an older one; and what does get into mOut after a failure is in   *)
(* order too. For any number of threads and transactions, and any size of   *)
(* a transaction.                                                           *)
THEOREM OutKeepsHistory == Spec => []OutIsHistory
<1>1. Init => HInv
  <2> SUFFICES ASSUME Init  PROVE HInv  OBVIOUS
  <2>1. EmptyParcel \in Parcels /\ Sized(EmptyParcel)
    BY DEF EmptyParcel, Parcels, Sized, Word
  <2>2. OutTypes
    <3>1. <<>> \in Seq(Handles)  OBVIOUS
    <3>2. sent \in [Threads -> Seq(Handles)]  BY <3>1 DEF Init
    <3>3. executed \in [Threads -> SUBSET Nat] /\ mOut \in [Threads -> Parcels]
      BY <2>1 DEF Init
    <3> QED  BY <3>2, <3>3 DEF OutTypes
  <2>3. \A t \in Threads : History(t)  BY <2>1 DEF Init, History, InCall
  <2> QED  BY <2>2, <2>3 DEF HInv
<1>2. HInv => OutIsHistory
  <2> SUFFICES ASSUME HInv, NEW t \in Threads
               PROVE  /\ Sized(mOut[t])
                      /\ tls[t] # 0 /\ mOut[t].mError = "NO_ERROR" =>
                           mOut[t].data = Everything(t) /\ Closed(executed[t])
                      /\ tls[t] # 0 => Ascending(mOut[t].data)
    <3>1. \A u \in Threads : DOMAIN mOut[u].data = 1 .. Len(mOut[u].data)
      BY DEF HInv, OutTypes, Parcels
    <3> QED  BY <3>1 DEF OutIsHistory, Sized, Closed, Ascending, Key
  <2> QED  BY DEF HInv, History
<1>3. IInv => StateKept  BY DEF IInv
<1>4. IInv /\ [Next]_vars => IInv'
  BY NextDriverKept, NextStateKept DEF IInv
<1> QED  BY <1>1, <1>2, <1>3, <1>4, InitIInv, InitPInv, NextPInv, NextHInv, PTL DEF Spec
=============================================================================
