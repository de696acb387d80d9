---------------------------- MODULE MCMonitoring ----------------------------
\* Two readings, late or on time, over enough days for raw data and minutes to expire; and three
\* devices with their uploads and readers.
EXTENDS Monitoring

\* A camera whose pictures are optional, a sensor with two channels and a camera that is switched
\* off, and a device from before capabilities.
Source(kind, required, enabled, channels) ==
  [kind |-> kind, required |-> required, enabled |-> enabled, channels |-> channels]
Sources ==
  <<[cam |-> Source("image", FALSE, TRUE, {})],
    [soil |-> Source("packet", TRUE, TRUE, {"t", "h"}), spare |-> Source("image", FALSE, FALSE, {})],
    <<>>>>
Provisioned == <<{}, {"t", "h"}, {"t"}>>
Graces == [packet |-> 0, image |-> 0]
=============================================================================
