------------------------------- MODULE Packet ------------------------------
(***************************************************************************)
(* The packet that virt_mmio_net_tx builds (src/driver/virt_mmio.c): a     *)
(* virtio header, an Ethernet header, an ARP response and the data, each   *)
(* written over what was there before.  A byte is the part it comes from   *)
(* and its place there; what the headers say is left out.                  *)
(***************************************************************************)
EXTENDS Integers

NET_HDR == 12      \* sizeof(struct virtio_net_hdr), eth_hdr, arp_hdr
ETH_HDR == 14
ARP_HDR == 28
Unwritten == <<"memory", 0>>

\* The first n bytes of a part are written behind the first off bytes of p.
Store(p, off, part, n) ==
  [i \in DOMAIN p |-> IF i - off \in 1 .. n THEN <<part, i - off>> ELSE p[i]]

\* num_buffers, the last two bytes, is left as it is.
build_virtio_net_hdr(p, off) == Store(p, off, "net", 10)

\* The length of the payload is a uint16_t.
build_eth_frame(p, off, len) ==
  Store(Store(p, off, "eth", ETH_HDR), off + ETH_HDR, "data", len % 65536)

build_arp_response(p, off) == Store(p, off, "arp", ARP_HDR)

\* A faulty variant: the ARP response is built before the Ethernet frame.
BuildPacket_ArpFirst(len) ==
  LET p == [i \in 1 .. (len + ARP_HDR + ETH_HDR + NET_HDR) |-> Unwritten]
      arp == build_arp_response(build_virtio_net_hdr(p, 0), NET_HDR + ETH_HDR)
      eth == build_eth_frame(arp, NET_HDR, len)
  IN  Store(eth, NET_HDR + ETH_HDR + ARP_HDR, "data", len)

BuildPacket(len) ==
  LET p == [i \in 1 .. (len + ARP_HDR + ETH_HDR + NET_HDR) |-> Unwritten]
      eth == build_eth_frame(build_virtio_net_hdr(p, 0), NET_HDR, len)
      arp == build_arp_response(eth, NET_HDR + ETH_HDR)
  IN  Store(arp, NET_HDR + ETH_HDR + ARP_HDR, "data", len)
=============================================================================
