\* Asynchronous sends: two threads, four jobs, one submitted by a callback; two
\* runs of the pool.  IOCP: two workers, two starts, one send, one datagram.
\* DTLS: four handshakes.  External: three packets, one size over the host's
\* buffer.  Relay: two paths, one of an unknown type.
CONSTANTS
    Thread = {t1, t2}
    Job = {1, 2, 3, 4}
    None = None
    Follow <- Chained
    MaxStarts = 2
    num_workers = 2
    MaxIocpStarts = 2
    MaxIocpSends = 1
    MaxArrivals = 1
    MaxRefused = 1
    MaxHandshakes = 4
    MaxDtlsBytes = 2
    ExtSize = {1, 3}
    HostBuffer = 2
    MaxExtSends = 3
    FilterPath = {p1, p2}
    RelayUnknown = {p2}
    UpdatesPerSec = 2
    MinChange = 2
    Second = 2
    RelayUpdate = {1, 2}
    RelayConfigs <- Relays
    MaxBatchAge = 1
    MaxForwards = 1
SPECIFICATION TransportsSpec
INVARIANTS PoolInv IocpInv DtlsInv ExternalInv RelayInv
PROPERTIES RunningJobsComplete StopTerminates SendsAnswered BucketsDrain
CHECK_DEADLOCK FALSE
