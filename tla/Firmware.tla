------------------------------ MODULE Firmware ------------------------------
(***************************************************************************)
(* What the payload knows of each firmware version: where a kernel keeps    *)
(* the word "firmware", where it has the functions the payload calls and    *)
(* the code it patches, and where the libkernel of a process has the        *)
(* functions the loader calls.  Versions are the numbers the source uses    *)
(* (7.02 is 702), addresses are offsets from the base of the kernel or of   *)
(* the library.  Of the 55 symbols of a kernel the tables here keep those   *)
(* that the installer patches or hooks.                                     *)
(***************************************************************************)
EXTENDS Naturals, SequencesExt

\* kget_firmware_from_base: the versions in the order they are tried, each with
\* the place where its kernel has the word.
Probes == <<
  <<505, \h7C7350>>,
  <<672, \h827FB9>>,
  <<700, \h827145>>, <<701, \h827145>>, <<702, \h827145>>,
  <<750, \h7B5F4C>>, <<751, \h7B5F4C>>, <<755, \h7B5F4C>>,
  <<800, \h7A0C60>>, <<801, \h7A0C60>>, <<803, \h7A0C60>>,
  <<850, \h7C8B78>>, <<852, \h7C8B78>>,
  <<900, \h7E1127>>,
  <<903, \h7DEF17>>, <<904, \h7DEF17>>,
  <<950, \h7A719C>>, <<951, \h7A719C>>, <<960, \h7A719C>>,
  <<1000, \h7A96F8>>, <<1001, \h7A96F8>>,
  <<1050, \h79E4D8>>, <<1070, \h79E4D8>>, <<1071, \h79E4D8>>,
  <<1100, \h8011AE>>>>

Supported == {p[1] : p \in ToSet(Probes)}

\* Where the kernel of a version has the word.
WordAt == [v \in Supported |-> (CHOOSE p \in ToSet(Probes) : p[1] = v)[2]]

\* The kernel of a version the code does not know has it nowhere it looks.
Probed(v, p) == v \in Supported /\ p[2] = WordAt[v]

\* The version reported on a console of version v: the first that fits, or 0.
Detect(v) ==
  LET k == SelectInSeq(Probes, LAMBDA p : Probed(v, p))
  IN  IF k = 0 THEN 0 ELSE Probes[k][1]

-----------------------------------------------------------------------------
(* init_ksdk                                                                *)

NoSdk == [memcpy |-> 0, kmem_alloc |-> 0, vm_map_protect |-> 0, sysents |-> 0]

Sdk505 == [memcpy |-> \h1EA530, kmem_alloc |-> \hFCC80,
  vm_map_protect |-> \h1A3A50, sysents |-> \h107C610]

Sdk672 == [memcpy |-> \h3C15B0, kmem_alloc |-> \h250730,
  vm_map_protect |-> \h451BF0, sysents |-> \h111E000]

Sdk70X == [memcpy |-> \h2F040, kmem_alloc |-> \h1170F0,
  vm_map_protect |-> \h36AE90, sysents |-> \h1125660]

Sdk75X == [memcpy |-> \h28F800, kmem_alloc |-> \h1753E0,
  vm_map_protect |-> \h3012F0, sysents |-> \h1122340]

Sdk80X == [memcpy |-> \h25E1C0, kmem_alloc |-> \h1B3F0,
  vm_map_protect |-> \h3EC4C0, sysents |-> \h10FC4D0]

Sdk85X == [memcpy |-> \h3A40F0, kmem_alloc |-> \h2199A0,
  vm_map_protect |-> \h14D510, sysents |-> \h10FC5C0]

Sdk900 == [memcpy |-> \h2714B0, kmem_alloc |-> \h37BE70,
  vm_map_protect |-> \h809C0, sysents |-> \h1100310]

Sdk90X == [memcpy |-> \h271130, kmem_alloc |-> \h37A070,
  vm_map_protect |-> \h809C0, sysents |-> \h10FC310]

Sdk9XX == [memcpy |-> \h201CC0, kmem_alloc |-> \h1889D0,
  vm_map_protect |-> \h196B70, sysents |-> \h10F92F0]

Sdk100X == [memcpy |-> \h472D20, kmem_alloc |-> \h33B040,
  vm_map_protect |-> \h391EB0, sysents |-> \h1102D90]

Sdk10XX == [memcpy |-> \hD7370, kmem_alloc |-> \h428960,
  vm_map_protect |-> \h47B110, sysents |-> \h11029C0]

Sdk1100 == [memcpy |-> \h2DDDF0, kmem_alloc |-> \h245E10,
  vm_map_protect |-> \h35C710, sysents |-> \h1101760]

SdkOf(v) ==
  CASE v = 505                     -> Sdk505
    [] v = 672                     -> Sdk672
    [] v \in {700, 701, 702}       -> Sdk70X
    [] v \in {750, 751, 755}       -> Sdk75X
    [] v \in {800, 801, 803}       -> Sdk80X
    [] v \in {850, 852}            -> Sdk85X
    [] v = 900                     -> Sdk900
    [] v \in {903, 904}            -> Sdk90X
    [] v \in {950, 951, 960}       -> Sdk9XX
    [] v \in {1000, 1001}          -> Sdk100X
    [] v \in {1050, 1070, 1071}    -> Sdk10XX
    [] v = 1100                    -> Sdk1100
    [] OTHER                       -> NoSdk

-----------------------------------------------------------------------------
(* patch_kernel                                                             *)

NoPatch == [memcpy |-> 0, vm_map_protect |-> 0, kmem_alloc |-> {}, others |-> {}]

Patch505 == [memcpy |-> \h1EA53D, vm_map_protect |-> \h1A3C08,
  kmem_alloc |-> {\hFCD48, \hFCD56},
  others |-> {\h11730, \h117B0, \h117C0, \h7673E0,
             \h13F03F, \h30D9AA, \h30DE01, \h194875}]

Patch672 == [memcpy |-> \h3C15BD, vm_map_protect |-> \h451DB8,
  kmem_alloc |-> {\h2507F5, \h250803},
  others |-> {\h233BD0, \h233C40, \h233C50, \h784120,
             \hAD2E4, \h10F879, \h10FD22, \h3CECE1}]

Patch70X == [memcpy |-> \h2F04D, vm_map_protect |-> \h264C08,
  kmem_alloc |-> {\h1171BE, \h1171C6},
  others |-> {\h1CB880, \h1CB8F0, \h1CB910, \h7889E0,
             \h1D40BB, \h448D5, \h44DAF, \hC1F9A}]

Patch755 == [memcpy |-> \h28F80D, vm_map_protect |-> \h3014C8,
  kmem_alloc |-> {\h1754AC, \h1754B4},
  others |-> {\h364CD0, \h364D40, \h364D60, \h77F9A0,
             \hDCEB1, \h361CF5, \h3621CF, \h218AA2}]

Patch80X == [memcpy |-> \h25E1CD, vm_map_protect |-> \h3EC68B,
  kmem_alloc |-> {\h1B4BC, \h1B4C4},
  others |-> {\h1D5710, \h1D5780, \h1D57A0, \h766DF0,
             \hFED61, \h174155, \h174173, \h2856F4}]

Patch8XX == [memcpy |-> \h3A40FD, vm_map_protect |-> \h14D6DB,
  kmem_alloc |-> {\h219A6C, \h219A74},
  others |-> {\h2935E0, \h293650, \h293670, \h76CEB0,
             \h84411, \h132535, \h132A0F, \h215154}]

Patch900 == [memcpy |-> \h2714BD, vm_map_protect |-> \h80B8B,
  kmem_alloc |-> {\h37BF3C, \h37BF44},
  others |-> {\h8BC20, \h8BC90, \h8BCB0, \h767E30,
             \h168051, \h41F4E5, \h41F9D1, \h5F824}]

Patch90X == [memcpy |-> \h27113D, vm_map_protect |-> \h80B8B,
  kmem_alloc |-> {\h37A13C, \h37A144},
  others |-> {\h8BC20, \h8BC90, \h8BCB0, \h765DF0,
             \h168001, \h41D455, \h41D941, \h5F824}]

Patch9XX == [memcpy |-> \h201CCD, vm_map_protect |-> \h196D3B,
  kmem_alloc |-> {\h188A9C, \h188AA4},
  others |-> {\h32590, \h32600, \h32620, \h7603C0,
             \h124AA1, \h47A005, \h47A4F1, \h29AE74}]

Patch100X == [memcpy |-> \h472D2D, vm_map_protect |-> \h39207B,
  kmem_alloc |-> {\h33B10C, \h33B114},
  others |-> {\hA5C60, \hA5CD0, \hA5CF0, \h765620,
             \hEF2C1, \h44E625, \h44EB11, \h3BF3A4}]

Patch10XX == [memcpy |-> \hD737D, vm_map_protect |-> \h47B2EC,
  kmem_alloc |-> {\h428A2C, \h428A34},
  others |-> {\h1F4470, \h1F44E0, \h1F4500, \h7673D0,
             \h19E151, \h424E85, \h425371, \h345E04}]

Patch1100 == [memcpy |-> \h2DDDFD, vm_map_protect |-> \h35C8EC,
  kmem_alloc |-> {\h245EDC, \h245EE4},
  others |-> {\h3D0DE0, \h3D0E50, \h3D0E70, \h76D210,
             \h157F91, \h384285, \h384771, \h3B11A4}]

\* Variation: 8.50 is patched like 8.00.
PatchOfEarlier(v) ==
  CASE v = 505                          -> Patch505
    [] v = 672                          -> Patch672
    [] v \in {700, 701, 702}            -> Patch70X
    [] v \in {800, 801, 803, 850, 852}  -> Patch80X
    [] v = 900                          -> Patch900
    [] v \in {903, 904}                 -> Patch90X
    [] v \in {950, 951, 960}            -> Patch9XX
    [] v \in {1000, 1001}               -> Patch100X
    [] v \in {1050, 1070, 1071}         -> Patch10XX
    [] v = 1100                         -> Patch1100
    [] OTHER                            -> NoPatch

\* There is a Patch755, and no case that uses it.
PatchOf(v) ==
  CASE v = 505                     -> Patch505
    [] v = 672                     -> Patch672
    [] v \in {700, 701, 702}       -> Patch70X
    [] v \in {800, 801, 803}       -> Patch80X
    [] v \in {850, 852}            -> Patch8XX
    [] v = 900                     -> Patch900
    [] v \in {903, 904}            -> Patch90X
    [] v \in {950, 951, 960}       -> Patch9XX
    [] v \in {1000, 1001}          -> Patch100X
    [] v \in {1050, 1070, 1071}    -> Patch10XX
    [] v = 1100                    -> Patch1100
    [] OTHER                       -> NoPatch

\* write_jmp and the three bytes before it, on every firmware.
TrapHook == \h1718D8

-----------------------------------------------------------------------------
(* proc_create_thread: scePthreadAttrInit, scePthreadCreate and             *)
(* _thr_initial by version (scePthreadAttrSetstacksize is left out)         *)

NoRow == <<0, 0, 0>>

Row(versions, init, create, thr) == [for |-> versions, at |-> <<init, create, thr>>]

\* The addresses stay 0 when a table has no case for the version.
RowOf(table, v) ==
  IF \E row \in table : v \in row.for THEN (CHOOSE row \in table : v \in row.for).at ELSE NoRow

\* Of kdebugger, for libkernel.sprx, libkernel_web.sprx, libkernel_sys.sprx.
Sprx == {
  Row({505}, \h12660, \h12AA0, \h84C20),
  Row({672}, \h13A40, \h13E80, \h435420),
  Row({702}, \h136E0, \h13B20, \h8D420),
  Row({750, 751, 755}, \h13630, \h13A70, \h8D420),
  Row({800, 801, 803}, \h135D0, \h13A10, \h8D420),
  Row({850, 852}, \h13660, \h13AA0, \h89430),
  Row({900, 903, 904}, \h13660, \h13AA0, \h8E430),
  Row({950, 951, 960, 1000, 1001}, \h132F0, \h13730, \h8E430),
  Row({1050, 1070, 1071}, \h13400, \h13840, \h8E430),
  Row({1100}, \h134A0, \h138E0, \h8E430)}

Web == {
  Row({505}, \h1E730, \h98C0, \h84C20),
  Row({672}, \h1FD20, \hA0F0, \h435420),
  Row({702}, \h1F9B0, \h9FF0, \h8D420),
  Row({750, 751, 755}, \h1FA70, \h9F10, \h8D420),
  Row({800, 801, 803}, \h1F920, \h9F60, \h8D420),
  Row({850, 852}, \h18D50, \h286B0, \h89430),
  Row({900, 903, 904}, \h87F0, \h204C0, \h8E430),
  Row({1000, 1001}, \h14C20, \h5800, \h8E430),
  Row({1050, 1070, 1071}, \h17D80, \h1BE60, \h8E430),
  Row({1100}, \h15990, \h20D90, \h8E430)}

Sys == {
  Row({505}, \h13190, \h135D0, \h89030),
  Row({672}, \h14570, \h149B0, \h435830),
  Row({700, 750, 751, 755}, \h14160, \h145A0, \h8D830),
  Row({701, 702}, \h14210, \h14650, \h8D830),
  Row({800, 801, 803}, \h153C0, \h14540, \h8D830),
  Row({850, 852}, \h15450, \h145D0, \h8D830),
  Row({900, 903, 904}, \h14190, \h145D0, \h8E830),
  Row({950, 951, 960, 1000, 1001}, \h13E20, \h14260, \h8E830),
  Row({1050, 1070, 1071}, \h13F70, \h143B0, \h8E830),
  Row({1100}, \h14010, \h14450, \h8E830)}

\* Of the installer.
InstallerSprx == {
  Row({505}, \h12660, \h12AA0, \h84C20),
  Row({672}, \h13A40, \h13E80, \h435420),
  Row({702}, \h136E0, \h13B20, \h8D420),
  Row({750, 751, 755}, \h13630, \h13A70, \h8D420),
  Row({800, 801, 803}, \h135D0, \h13A10, \h8D420),
  Row({850, 852}, \h13660, \h13AA0, \h89430),
  Row({900, 903, 904}, \h13660, \h13AA0, \h8E430),
  Row({950, 951, 960, 1000, 1001}, \h132F0, \h13730, \h8E430),
  Row({1050, 1070, 1071}, \h13400, \h13840, \h8E430),
  Row({1100}, \h134A0, \h138E0, \h8E430)}

InstallerWeb == {
  Row({505}, \h1E730, \h98C0, \h84C20),
  Row({672}, \h1FD20, \hA0F0, \h435420),
  Row({702}, \h1F9B0, \h9FF0, \h8D420),
  Row({750, 751, 755}, \h1FA70, \h9F10, \h8D420),
  Row({800, 801, 803}, \h1F920, \h9F60, \h8D420),
  Row({850, 852}, \h18D50, \h286B0, \h89430),
  Row({900, 903, 904}, \h87F0, \h204C0, \h8E430),
  Row({1000, 1001}, \h14C20, \h5800, \h8E430),
  Row({1050, 1070, 1071}, \h17D80, \h1BE60, \h8E430),
  Row({1100}, \h15990, \h20D90, \h8E430)}

InstallerSys == {
  Row({505}, \h13190, \h135D0, \h89030),
  Row({672}, \h14570, \h149B0, \h435830),
  Row({700, 750, 751, 755}, \h14160, \h145A0, \h8D830),
  Row({701, 702}, \h14210, \h14650, \h8D830),
  Row({800, 801, 803}, \h153C0, \h14540, \h8D830),
  Row({850, 852}, \h15450, \h145D0, \h8D830),
  Row({900, 903, 904}, \h14190, \h145D0, \h8E830),
  Row({950, 951, 960, 1000, 1001}, \h13E20, \h14260, \h8E830),
  Row({1050, 1070, 1071}, \h13F70, \h143B0, \h8E830),
  Row({1100}, \h14010, \h14450, \h8E830)}

\* The installer has a copy of the tables of kdebugger.
ASSUME CopiesAgree ==
  InstallerSprx = Sprx /\ InstallerWeb = Web /\ InstallerSys = Sys

=============================================================================
