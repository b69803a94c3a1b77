-------------------------- MODULE IntelDescriptors -------------------------
(***************************************************************************)
(* The one-byte descriptors of CPUID leaf 2, from the tables               *)
(* intel_cache_descriptors[], intel_tlb_descriptors[] and                  *)
(* intel_trace_descriptors[] of hardware/x86cpuid.c.  A cache is           *)
(*     <<descriptor, level, type, KiB, bytes per line, ways>>              *)
(* and a TLB                                                               *)
(*     <<descriptor, level, type, KiB per page, entries, ways>>.           *)
(***************************************************************************)

EXTENDS Integers

\* MEMTYPE_UNKNOWN, _CODE, _DATA and _UNIFIED (internal.h)
Unknown == 0
Code == 1
Data == 2
Unified == 3

CacheRowsA ==
    {<<6, 1, Code, 8, 32, 4>>, <<8, 1, Code, 16, 32, 4>>, <<9, 1, Code, 32, 64, 4>>,
     <<10, 1, Data, 8, 32, 2>>, <<12, 1, Data, 16, 32, 4>>, <<13, 1, Data, 16, 64, 4>>,
     <<33, 2, Unified, 256, 64, 8>>, <<34, 3, Unified, 512, 64, 4>>,
     <<35, 3, Unified, 1024, 64, 8>>, <<37, 3, Unified, 2048, 64, 8>>,
     <<41, 3, Unified, 4096, 64, 8>>, <<44, 1, Data, 32, 64, 8>>,
     <<48, 1, Code, 32, 64, 8>>, <<57, 2, Unified, 128, 64, 4>>,
     <<58, 2, Unified, 192, 64, 6>>, <<59, 2, Unified, 128, 64, 2>>,
     <<60, 2, Unified, 256, 64, 4>>}

CacheRowsB ==
    {<<61, 2, Unified, 384, 64, 6>>, <<62, 2, Unified, 512, 64, 4>>,
     <<65, 2, Unified, 128, 32, 4>>, <<66, 2, Unified, 256, 32, 4>>,
     <<67, 2, Unified, 512, 32, 4>>, <<68, 2, Unified, 1024, 32, 4>>,
     <<69, 2, Unified, 2048, 32, 4>>, <<70, 3, Unified, 4096, 64, 4>>,
     <<71, 3, Unified, 8192, 64, 8>>, <<72, 2, Unified, 3072, 64, 12>>,
     <<73, 2, Unified, 4096, 64, 16>>, <<74, 3, Unified, 6144, 64, 12>>,
     <<75, 3, Unified, 8192, 64, 16>>, <<76, 3, Unified, 12288, 64, 12>>,
     <<77, 3, Unified, 16384, 64, 16>>, <<78, 2, Unified, 6144, 64, 24>>,
     <<96, 1, Data, 16, 64, 8>>}

CacheRowsC ==
    {<<102, 1, Data, 8, 64, 4>>, <<103, 1, Data, 16, 64, 4>>,
     <<104, 1, Data, 32, 64, 4>>, <<118, 2, Unified, 1024, 64, 4>>,
     <<120, 2, Unified, 1024, 64, 4>>, <<121, 2, Unified, 128, 64, 8>>,
     <<122, 2, Unified, 256, 64, 8>>, <<123, 2, Unified, 512, 64, 8>>,
     <<124, 2, Unified, 1024, 64, 8>>, <<125, 2, Unified, 2048, 64, 8>>,
     <<127, 2, Unified, 512, 64, 2>>, <<128, 2, Unified, 512, 64, 8>>,
     <<130, 2, Unified, 256, 32, 8>>, <<131, 2, Unified, 512, 32, 8>>,
     <<132, 2, Unified, 1024, 32, 8>>, <<133, 2, Unified, 2048, 32, 8>>,
     <<134, 2, Unified, 512, 64, 4>>}

CacheRowsD ==
    {<<135, 2, Unified, 1, 64, 8>>, <<208, 3, Unified, 512, 64, 4>>,
     <<209, 3, Unified, 1024, 64, 4>>, <<210, 3, Unified, 2048, 64, 4>>,
     <<214, 3, Unified, 12288, 64, 8>>, <<215, 3, Unified, 18432, 64, 8>>,
     <<216, 3, Unified, 24576, 64, 8>>, <<220, 3, Unified, 1536, 64, 12>>,
     <<221, 3, Unified, 3072, 64, 12>>, <<222, 3, Unified, 6144, 64, 12>>,
     <<226, 3, Unified, 2048, 64, 16>>, <<227, 3, Unified, 4096, 64, 16>>,
     <<228, 3, Unified, 8192, 64, 16>>, <<234, 3, Unified, 12288, 64, 24>>,
     <<235, 3, Unified, 18432, 64, 24>>, <<236, 3, Unified, 24576, 64, 24>>}

TlbRowsA ==
    {<<1, 2, Code, 4, 32, 4>>, <<2, 2, Code, 4096, 2, 2>>, <<3, 2, Data, 4, 64, 4>>,
     <<4, 2, Data, 4096, 8, 4>>, <<5, 2, Data, 4096, 32, 4>>,
     <<80, 1, Code, 4096, 64, 64>>, <<81, 1, Code, 4, 128, 128>>,
     <<82, 1, Code, 4096, 256, 256>>, <<85, 2, Code, 4, 7, 7>>,
     <<86, 1, Data, 4096, 16, 4>>, <<87, 1, Data, 4, 16, 4>>,
     <<90, 1, Data, 4096, 32, 4>>, <<91, 2, Data, 4, 64, 64>>,
     <<92, 2, Data, 4, 128, 128>>, <<93, 2, Data, 4, 256, 256>>,
     <<97, 2, Code, 4, 48, 48>>}

TlbRowsB ==
    {<<99, 3, Data, 1048576, 4, 4>>, <<176, 1, Code, 4, 128, 4>>,
     <<177, 1, Code, 2048, 8, 4>>, <<178, 1, Code, 4, 64, 4>>,
     <<179, 1, Data, 4, 128, 4>>, <<180, 1, Data, 4, 256, 4>>,
     <<181, 1, Code, 4, 64, 8>>, <<182, 1, Code, 4, 128, 8>>,
     <<186, 1, Data, 4, 64, 4>>, <<192, 1, Data, 4, 8, 4>>,
     <<193, 2, Unified, 4, 1024, 8>>, <<194, 1, Data, 4, 16, 4>>,
     <<195, 2, Unified, 4, 1536, 6>>, <<196, 1, Data, 4, 32, 4>>,
     <<202, 2, Data, 4, 512, 4>>}

CacheRows == CacheRowsA \cup CacheRowsB \cup CacheRowsC \cup CacheRowsD
TlbRows == TlbRowsA \cup TlbRowsB

\* Trace caches (0x70 to 0x73), and 0xf0, 0xf1, 0x40 and 0xff: prefetching,
\* no further cache level, and "see leaf 4".  All are skipped.
TraceDescriptors == 112 .. 115
SkippedDescriptors == {240, 241, 64, 255}
=============================================================================
