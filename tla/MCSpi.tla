------------------------------- MODULE MCSpi --------------------------------
(* The SPI master with small bytes: words of each size with and without    *)
(* reception, among them the test of spi.cpp with the slave of the test    *)
(* bench, and transfers of the DMA with both clock polarities.             *)
EXTENDS SpiMaster

Conf(nbytes, div, csn, pause, pol, txRx) ==
  [master |-> TRUE, nbytes |-> nbytes, div |-> div, csn |-> csn, pause |-> pause,
   pol |-> pol, txRx |-> txRx, strobe |-> div \div 2, slave |-> NoSlave]

(* spi.cpp:55-56, div and txRx of the slave given.                         *)
Test(nbytes, div, csn, pause, pol, slaveDiv, txRx) ==
  [Conf(nbytes, div, csn, pause, pol, TRUE) EXCEPT
     !.slave = [Conf(nbytes, slaveDiv, csn, pause, pol, txRx) EXCEPT !.master = FALSE]]

MCConfs ==
  {Conf(1, 4, 4, 2, 0, TRUE), Conf(4, 2, 2, 0, 1, TRUE), Conf(2, 3, 4, 1, 0, FALSE),
   Test(3, 4, 4, 10, 0, 4, TRUE), Test(2, 5, 2, 0, 1, 60, TRUE), Test(1, 4, 6, 2, 0, 60, FALSE),
   Conf(0, 4, 4, 2, 0, TRUE), Conf(0, 4, 4, 0, 1, FALSE), Conf(0, 2, 2, 0, 0, TRUE)}

=============================================================================
